---- MODULE Spec2Model ----
(***************************************************************************)
(* Trade journal (src/app.py): the per-trade metric derivation             *)
(* compute_metrics, its helpers, and the two handlers that call it: the    *)
(* "Save trade" form submission and the "Apply edits and deletions"        *)
(* button of the data editor (specification Spec); and the aggregates of   *)
(* the dashboard and of the streaks page over a frame of loaded trades:    *)
(* the daily table with equity and drawdown, compute_zylo_score and        *)
(* compute_streaks (specification DashSpec).                               *)
(*                                                                         *)
(* Representation.                                                         *)
(*   - A number (Python int or float) is an exact rational <<n, d>> in     *)
(*     lowest terms with d > 0; Python's None is the empty tuple <<>>.     *)
(*     Binary floating point rounding is not represented: arithmetic is    *)
(*     exact.                                                              *)
(*   - A string is the tuple of its characters; a missing string (None)    *)
(*     is the one-element tuple <<"None">>, which is no string.            *)
(*   - A date of the dashboard is a day number, day 0 being Monday         *)
(*     2024-01-01.                                                         *)
(***************************************************************************)
EXTENDS Integers, Sequences, FiniteSets, TLC

\* ------------------------------------------------------------------------
\* Bounds of the model
\* ------------------------------------------------------------------------
MaxRuns == 2         \* handler runs (form submissions and applied edits)
MaxTrades == 5       \* rows of the frame the dashboard is computed from

\* ------------------------------------------------------------------------
\* Exact rational arithmetic
\* ------------------------------------------------------------------------
None == <<>>

Abs(i) == IF i < 0 THEN 0 - i ELSE i

RECURSIVE GCD(_, _)
GCD(a, b) == IF b = 0 THEN a ELSE GCD(b, a % b)

\* the rational n/d (d # 0) in lowest terms with a positive denominator
Rat(n, d) ==
    LET g == GCD(Abs(n), Abs(d))
        s == IF d < 0 THEN 0 - 1 ELSE 1
    IN  <<(s * n) \div g, (s * d) \div g>>

Num(i) == <<i, 1>>
Zero == <<0, 1>>

\* sums over the least common denominator and products with the common
\* factors cancelled first, so that intermediate values stay small
RAdd(x, y) ==
    LET g == GCD(x[2], y[2])
    IN  Rat(x[1] * (y[2] \div g) + y[1] * (x[2] \div g), (x[2] \div g) * y[2])
RNeg(x) == <<0 - x[1], x[2]>>
RSub(x, y) == RAdd(x, RNeg(y))
RMul(x, y) ==
    LET g1 == GCD(Abs(x[1]), y[2])
        g2 == GCD(Abs(y[1]), x[2])
    IN  Rat((x[1] \div g1) * (y[1] \div g2), (x[2] \div g2) * (y[2] \div g1))
RDiv(x, y) == RMul(x, IF y[1] < 0 THEN <<0 - y[2], 0 - y[1]>> ELSE <<y[2], y[1]>>)
RAbs(x) == <<Abs(x[1]), x[2]>>
RLt(x, y) == x[1] * y[2] < y[1] * x[2]
RLe(x, y) == x[1] * y[2] <= y[1] * x[2]
RSign(x) == IF x[1] > 0 THEN 1 ELSE IF x[1] < 0 THEN 0 - 1 ELSE 0

\* Python truthiness of an optional number: None and 0 are false
Truthy(x) == x # None /\ x[1] # 0

\* int(x) of a number: truncation toward zero
Trunc(x) == IF x[1] >= 0 THEN Num(x[1] \div x[2]) ELSE Num(0 - ((0 - x[1]) \div x[2]))

\* round(x, 2): to the nearest hundredth, ties to the even hundredth (a tie
\* is a value with a binary representation, such as 0.125)
Round2(x) ==
    LET a == Abs(x[1]) * 100
        q == a \div x[2]
        r == a % x[2]
        up == 2 * r > x[2] \/ (2 * r = x[2] /\ q % 2 = 1)
        m == IF up THEN q + 1 ELSE q
    IN  Rat(IF x[1] < 0 THEN 0 - m ELSE m, 100)

\* ------------------------------------------------------------------------
\* Strings as tuples of characters
\* ------------------------------------------------------------------------
NoneStr == <<"None">>

LowerCase == <<"a", "b", "c", "d", "e", "f", "g", "h", "i", "j", "k", "l", "m",
               "n", "o", "p", "q", "r", "s", "t", "u", "v", "w", "x", "y", "z">>
UpperCase == <<"A", "B", "C", "D", "E", "F", "G", "H", "I", "J", "K", "L", "M",
               "N", "O", "P", "Q", "R", "S", "T", "U", "V", "W", "X", "Y", "Z">>
DigitChars == <<"0", "1", "2", "3", "4", "5", "6", "7", "8", "9">>

IsDigit(c) == \E i \in 1..10 : DigitChars[i] = c
DigitVal(c) == (CHOOSE i \in 1..10 : DigitChars[i] = c) - 1

\* str.upper() and str.lower(), character by character
UpperChar(c) ==
    IF \E i \in 1..26 : LowerCase[i] = c
    THEN UpperCase[CHOOSE i \in 1..26 : LowerCase[i] = c] ELSE c
LowerChar(c) ==
    IF \E i \in 1..26 : UpperCase[i] = c
    THEN LowerCase[CHOOSE i \in 1..26 : UpperCase[i] = c] ELSE c
Upper(s) == [i \in 1..Len(s) |-> UpperChar(s[i])]
Lower(s) == [i \in 1..Len(s) |-> LowerChar(s[i])]

\* str.strip(): leading and trailing blanks removed
RECURSIVE LStrip(_)
LStrip(s) == IF s # <<>> /\ Head(s) = " " THEN LStrip(Tail(s)) ELSE s
RECURSIVE RStrip(_)
RStrip(s) == IF s # <<>> /\ s[Len(s)] = " " THEN RStrip(SubSeq(s, 1, Len(s) - 1)) ELSE s
Strip(s) == RStrip(LStrip(s))

\* the value of a non-empty run of digits
RECURSIVE DigitsVal(_)
DigitsVal(s) == IF s = <<>> THEN 0 ELSE 10 * DigitsVal(SubSeq(s, 1, Len(s) - 1)) + DigitVal(s[Len(s)])
AllDigits(s) == \A i \in 1..Len(s) : IsDigit(s[i])

\* two-digit zero-padded rendering ("%02d") of 0..99
Pad2(n) == <<DigitChars[(n \div 10) + 1], DigitChars[(n % 10) + 1]>>

\* the text of a string constant, written character by character
S_NQ == <<"N", "Q">>
S_MNQ == <<"M", "N", "Q">>
S_ES == <<"E", "S">>
S_MES == <<"M", "E", "S">>
S_GC == <<"G", "C">>
S_MGC == <<"M", "G", "C">>
S_EURUSD == <<"E", "U", "R", "U", "S", "D">>
S_GBPUSD == <<"G", "B", "P", "U", "S", "D">>
S_USDJPY == <<"U", "S", "D", "J", "P", "Y">>
S_AUDUSD == <<"A", "U", "D", "U", "S", "D">>
S_Long == <<"L", "o", "n", "g">>
S_Short == <<"S", "h", "o", "r", "t">>

\* ------------------------------------------------------------------------
\* Constants of the program
\* ------------------------------------------------------------------------
\* INSTRUMENTS with the point value of NQ taken for 25 dollars
INSTRUMENTS_NQ25(instrument) ==
    CASE instrument = S_NQ -> Num(25)
      [] instrument = S_MNQ -> Num(2)
      [] instrument = S_ES -> Num(50)
      [] instrument = S_MES -> Num(5)
      [] instrument = S_GC -> Num(100)
      [] instrument = S_MGC -> Num(10)
      [] OTHER -> None

\* INSTRUMENTS.get(instrument): dollars per point, None for a symbol
\* outside the catalog
INSTRUMENTS(instrument) ==
    CASE instrument = S_NQ -> Num(20)
      [] instrument = S_MNQ -> Num(2)
      [] instrument = S_ES -> Num(50)
      [] instrument = S_MES -> Num(5)
      [] instrument = S_GC -> Num(100)
      [] instrument = S_MGC -> Num(10)
      [] OTHER -> None

FOREX_PAIRS == {S_EURUSD, S_GBPUSD, S_USDJPY, S_AUDUSD}

INSTRUMENT_ORDER == {S_NQ, S_MNQ, S_ES, S_MES, S_GC, S_MGC} \cup FOREX_PAIRS

COMPUTED_COLUMNS ==
    {"points", "pnl_gross", "pnl_net", "pnl_per_contract", "r_multiple",
     "target_r", "mfe_points", "mae_points", "mfe_r", "mae_r", "missed_pnl",
     "risk_dollars", "risk_percent_actual", "duration_minutes"}

FREE_TRADE_LIMIT == 15

\* ------------------------------------------------------------------------
\* Conversions
\* ------------------------------------------------------------------------
\* to_float of a cell that holds a number or nothing
to_float(value) == IF value = None THEN None ELSE value

\* to_int: int(float(value)), nothing for a missing cell
to_int(value) == IF value = None THEN None ELSE Trunc(value)

normalize_instrument(value) ==
    IF value = NoneStr THEN NoneStr
    ELSE LET v == Upper(Strip(value))
         IN  IF v # <<>> THEN v ELSE NoneStr

normalize_direction(value) ==
    IF value = NoneStr THEN NoneStr
    ELSE LET v == Lower(Strip(value))
         IN  IF v \in {<<"l", "o", "n", "g">>, <<"l">>, <<"b", "u", "y">>, <<"b", "u", "l", "l">>}
             THEN S_Long
             ELSE IF v \in {<<"s", "h", "o", "r", "t">>, <<"s">>, <<"s", "e", "l", "l">>,
                            <<"b", "e", "a", "r">>}
                  THEN S_Short
                  ELSE value

\* ------------------------------------------------------------------------
\* Times of day and dates (datetime.strptime)
\* ------------------------------------------------------------------------
\* the positions of c in s
Positions(s, c) == {i \in 1..Len(s) : s[i] = c}

\* the fields of s between the occurrences of the separator c
Split(s, c) ==
    LET ps == Positions(s, c)
        n == Cardinality(ps)
        \* the k-th separator position, 0 before the first, Len+1 after the last
        pos(k) == IF k = 0 THEN 0
                  ELSE IF k = n + 1 THEN Len(s) + 1
                  ELSE CHOOSE p \in ps : Cardinality({q \in ps : q < p}) = k - 1
    IN  [k \in 1..(n + 1) |-> SubSeq(s, pos(k - 1) + 1, pos(k) - 1)]

\* a field of one or two digits whose value is at most max
\* (%H: 2[0-3]|[0-1]\d|\d, %M: [0-5]\d|\d, %S: 6[0-1]|[0-5]\d|\d, of which
\* datetime refuses the seconds 60 and 61 with the same ValueError)
NumField(f, max) == Len(f) \in {1, 2} /\ AllDigits(f) /\ DigitsVal(f) <= max

\* strptime(s, "%H:%M"): <<hour, minute>>, or <<>> for a ValueError
ParseHM(s) ==
    LET f == Split(s, ":")
    IN  IF Len(f) = 2 /\ NumField(f[1], 23) /\ NumField(f[2], 59)
        THEN <<DigitsVal(f[1]), DigitsVal(f[2])>>
        ELSE <<>>

\* strptime(s, "%H:%M:%S"): <<hour, minute>> of the parsed time, or <<>>
ParseHMS(s) ==
    LET f == Split(s, ":")
    IN  IF Len(f) = 3 /\ NumField(f[1], 23) /\ NumField(f[2], 59) /\ NumField(f[3], 59)
        THEN <<DigitsVal(f[1]), DigitsVal(f[2])>>
        ELSE <<>>

\* strftime("%H:%M")
FormatHM(t) == Pad2(t[1]) \o <<":">> \o Pad2(t[2])

IsLeap(y) == (y % 4 = 0 /\ y % 100 # 0) \/ y % 400 = 0
DaysInMonth(y, m) ==
    IF m = 2 THEN (IF IsLeap(y) THEN 29 ELSE 28)
    ELSE IF m \in {4, 6, 9, 11} THEN 30 ELSE 31

\* strptime(s, "%Y-%m-%d") succeeds and names a date of the calendar
\* (%Y: \d\d\d\d, %m: 1[0-2]|0[1-9]|[1-9], %d: 3[01]|[12]\d|0[1-9]|[1-9]| [1-9])
ValidDate(s) ==
    LET f == Split(s, "-")
        dayField == IF Len(f) = 3 /\ Len(f[3]) = 2 /\ f[3][1] = " " THEN Tail(f[3]) ELSE f[3]
    IN  /\ Len(f) = 3
        /\ Len(f[1]) = 4 /\ AllDigits(f[1]) /\ DigitsVal(f[1]) >= 1
        /\ NumField(f[2], 12) /\ DigitsVal(f[2]) >= 1
        /\ dayField # <<>> /\ NumField(dayField, 31) /\ DigitsVal(dayField) >= 1
        /\ (Len(f[3]) = 2 /\ f[3][1] = " " => f[3][2] # "0")
        /\ DigitsVal(dayField) <= DaysInMonth(DigitsVal(f[1]), DigitsVal(f[2]))

\* normalize_time_input of a text or None, which is what its callers pass (a
\* text input of the form, a text cell of the editor)
normalize_time_input(value) ==
    IF value = NoneStr THEN NoneStr
    ELSE LET v == Strip(value)
         IN  IF v = <<>> THEN NoneStr
             ELSE IF ParseHM(v) # <<>> THEN FormatHM(ParseHM(v))
             ELSE IF ParseHMS(v) # <<>> THEN FormatHM(ParseHMS(v))
             ELSE IF AllDigits(v) /\ Len(v) \in {3, 4}
                  THEN LET w == IF Len(v) = 3 THEN <<"0">> \o v ELSE v
                       IN  SubSeq(w, 1, 2) \o <<":">> \o SubSeq(w, 3, 4)
                  ELSE NoneStr

\* parse_time_hour with the hour 0 for a time that does not parse
parse_time_hour_Midnight(value) ==
    IF value = NoneStr THEN Num(0)
    ELSE IF ParseHM(value) # <<>> THEN Num(ParseHM(value)[1]) ELSE Num(0)

parse_time_hour(value) ==
    IF value = NoneStr THEN None
    ELSE IF ParseHM(value) # <<>> THEN Num(ParseHM(value)[1]) ELSE None

\* compute_duration_minutes without the step to the next day
compute_duration_minutes_NoWrap(date_str, entry_time_str, exit_time_str) ==
    IF date_str \in {NoneStr, <<>>} \/ entry_time_str \in {NoneStr, <<>>}
       \/ exit_time_str \in {NoneStr, <<>>}
    THEN None
    ELSE IF ~ValidDate(date_str) \/ ParseHM(entry_time_str) = <<>> \/ ParseHM(exit_time_str) = <<>>
    THEN None
    ELSE LET entry_t == ParseHM(entry_time_str)
             exit_t == ParseHM(exit_time_str)
         IN  Num(60 * exit_t[1] + exit_t[2] - (60 * entry_t[1] + entry_t[2]))

\* minutes from entry to exit, the exit taken on the next day when it is
\* earlier in the day than the entry
compute_duration_minutes(date_str, entry_time_str, exit_time_str) ==
    IF date_str \in {NoneStr, <<>>} \/ entry_time_str \in {NoneStr, <<>>}
       \/ exit_time_str \in {NoneStr, <<>>}
    THEN None
    ELSE IF ~ValidDate(date_str) \/ ParseHM(entry_time_str) = <<>> \/ ParseHM(exit_time_str) = <<>>
    THEN None
    ELSE LET entry_t == ParseHM(entry_time_str)
             exit_t == ParseHM(exit_time_str)
             entry_min == 60 * entry_t[1] + entry_t[2]
             exit_min == 60 * exit_t[1] + exit_t[2]
         IN  IF exit_min < entry_min THEN Num(exit_min + 1440 - entry_min)
             ELSE Num(exit_min - entry_min)

\* ------------------------------------------------------------------------
\* compute_metrics
\* ------------------------------------------------------------------------
\* metrics = {col: None for col in COMPUTED_COLUMNS}
NoMetrics == [col \in COMPUTED_COLUMNS |-> None]

\* missing_required without the test of the direction
missing_required_NoDirection(instrument, direction, entry, stop, exit_price, contracts) ==
    \/ instrument \in {NoneStr, <<>>}
    \/ entry = None \/ stop = None \/ exit_price = None \/ contracts = None

\* the early returns on a missing instrument, direction, price or size
missing_required(instrument, direction, entry, stop, exit_price, contracts) ==
    \/ instrument \in {NoneStr, <<>>}
    \/ direction \in {NoneStr, <<>>}
    \/ entry = None \/ stop = None \/ exit_price = None \/ contracts = None

\* points without the branch on the direction
points_Undirected(direction, entry, exit_price) == RSub(exit_price, entry)

\* the directional price move: every direction but "Long" takes the else branch
points(direction, entry, exit_price) ==
    IF direction = S_Long THEN RSub(exit_price, entry) ELSE RSub(entry, exit_price)

EndsWith(s, suffix) ==
    Len(s) >= Len(suffix) /\ SubSeq(s, Len(s) - Len(suffix) + 1, Len(s)) = suffix

pip_size(instrument) ==
    IF EndsWith(instrument, <<"J", "P", "Y">>) THEN Rat(1, 100) ELSE Rat(1, 10000)

\* lots = contracts if contracts else 1
lots(contracts) == IF Truthy(contracts) THEN contracts ELSE Num(1)

\* ref_price taken from the exit price
ref_price_Exit(entry, exit_price) == exit_price

\* ref_price = entry if entry and entry > 0 else exit_price
ref_price(entry, exit_price) ==
    IF Truthy(entry) /\ RLt(Zero, entry) THEN entry ELSE exit_price

pip_value(instrument, entry, exit_price) ==
    IF instrument = S_USDJPY
    THEN IF Truthy(ref_price(entry, exit_price))
         THEN RDiv(Num(1000), ref_price(entry, exit_price)) ELSE Zero
    ELSE Num(10)

\* pnl_net / size if size else None
pnl_per_contract(pnl_net, size) == IF Truthy(size) THEN RDiv(pnl_net, size) ELSE None

\* r_multiple of a forex trade with 0 for an undefined ratio
r_multiple_forex_Zero(pnl_net, risk_dollars) ==
    IF Truthy(risk_dollars) THEN RDiv(pnl_net, risk_dollars) ELSE Zero

\* forex: r_multiple = pnl_net / risk_dollars if risk_dollars else None
r_multiple_forex(pnl_net, risk_dollars) ==
    IF Truthy(risk_dollars) THEN RDiv(pnl_net, risk_dollars) ELSE None

\* point value: r_multiple = points / risk_points if risk_points != 0 else None
r_multiple_points(pts, risk_points) ==
    IF risk_points # Zero THEN RDiv(pts, risk_points) ELSE None

\* x / risk if risk != 0 else None (target_r, mfe_r, mae_r)
per_risk(x, risk) == IF x # None /\ risk # Zero THEN RDiv(x, risk) ELSE None

\* the price moves to the take profit and to the most favourable price, and
\* the move against the trade to the most adverse price
target_points(direction, entry, take_profit) ==
    IF take_profit = None THEN None
    ELSE IF direction = S_Long THEN RSub(take_profit, entry) ELSE RSub(entry, take_profit)

mfe_points(direction, entry, max_favorable) ==
    IF max_favorable = None THEN None
    ELSE IF direction = S_Long THEN RSub(max_favorable, entry) ELSE RSub(entry, max_favorable)

\* mae_points with the sign convention of points
mae_points_AsPoints(direction, entry, max_adverse) ==
    IF max_adverse = None THEN None
    ELSE IF direction = S_Long THEN RSub(max_adverse, entry) ELSE RSub(entry, max_adverse)

mae_points(direction, entry, max_adverse) ==
    IF max_adverse = None THEN None
    ELSE IF direction = S_Long THEN RSub(entry, max_adverse) ELSE RSub(max_adverse, entry)

\* x / unit for a present x
InUnits(x, unit) == IF x = None THEN None ELSE RDiv(x, unit)

\* the branch of a pip-convention instrument
forex_metrics(instrument, direction, entry, stop, exit_price, take_profit, contracts, commission_val, slippage_val, max_favorable, max_adverse, account_size, duration_minutes) ==
    LET ps == pip_size(instrument)
        pips == RDiv(points(direction, entry, exit_price), ps)
        lts == lots(contracts)
        pv == pip_value(instrument, entry, exit_price)
        pnl_gross == RMul(RMul(pips, pv), lts)
        pnl_net == RSub(RSub(pnl_gross, commission_val), slippage_val)
        risk_pips == RDiv(RAbs(RSub(entry, stop)), ps)
        risk_dollars == RMul(RMul(risk_pips, pv), lts)
        mfe == InUnits(mfe_points(direction, entry, max_favorable), ps)
        mae == InUnits(mae_points(direction, entry, max_adverse), ps)
    IN  [points |-> pips,
         pnl_gross |-> pnl_gross,
         pnl_net |-> pnl_net,
         pnl_per_contract |-> pnl_per_contract(pnl_net, lts),
         r_multiple |-> r_multiple_forex(pnl_net, risk_dollars),
         target_r |-> per_risk(InUnits(target_points(direction, entry, take_profit), ps), risk_pips),
         mfe_points |-> mfe,
         mae_points |-> mae,
         mfe_r |-> per_risk(mfe, risk_pips),
         mae_r |-> per_risk(mae, risk_pips),
         missed_pnl |-> IF mfe # None THEN RMul(RMul(RSub(mfe, pips), pv), lts) ELSE None,
         risk_dollars |-> risk_dollars,
         risk_percent_actual |->
             IF Truthy(account_size) THEN RMul(RDiv(risk_dollars, account_size), Num(100))
             ELSE None,
         duration_minutes |-> duration_minutes]

\* the branch of a point-value instrument
point_metrics(per_point, direction, entry, stop, exit_price, take_profit, contracts, commission_val, slippage_val, max_favorable, max_adverse, account_size, duration_minutes) ==
    LET pts == points(direction, entry, exit_price)
        pnl_gross == RMul(RMul(pts, per_point), contracts)
        pnl_net == RSub(RSub(pnl_gross, commission_val), slippage_val)
        risk_points == RAbs(RSub(entry, stop))
        risk_dollars == RMul(RMul(risk_points, per_point), contracts)
        mfe == mfe_points(direction, entry, max_favorable)
        mae == mae_points(direction, entry, max_adverse)
    IN  [points |-> pts,
         pnl_gross |-> pnl_gross,
         pnl_net |-> pnl_net,
         pnl_per_contract |-> pnl_per_contract(pnl_net, contracts),
         r_multiple |-> r_multiple_points(pts, risk_points),
         target_r |-> per_risk(target_points(direction, entry, take_profit), risk_points),
         mfe_points |-> mfe,
         mae_points |-> mae,
         mfe_r |-> per_risk(mfe, risk_points),
         mae_r |-> per_risk(mae, risk_points),
         missed_pnl |-> IF mfe # None THEN RMul(RMul(RSub(mfe, pts), per_point), contracts) ELSE None,
         risk_dollars |-> risk_dollars,
         risk_percent_actual |->
             IF Truthy(account_size) THEN RMul(RDiv(risk_dollars, account_size), Num(100))
             ELSE None,
         duration_minutes |-> duration_minutes]

\* compute_metrics of the arguments a, a record with one field per parameter
compute_metrics(a) ==
    IF missing_required(a.instrument, a.direction, a.entry, a.stop, a.exit_price, a.contracts)
    THEN NoMetrics
    ELSE LET instrument == normalize_instrument(a.instrument)
             per_point == INSTRUMENTS(instrument)
             commission_val == IF Truthy(a.commission) THEN a.commission ELSE Zero
             slippage_val == IF Truthy(a.slippage) THEN a.slippage ELSE Zero
             duration_minutes ==
                 compute_duration_minutes(a.date_str, a.entry_time_str, a.exit_time_str)
         IN  IF instrument \in FOREX_PAIRS
             THEN forex_metrics(instrument, a.direction, a.entry, a.stop, a.exit_price,
                                a.take_profit, a.contracts, commission_val, slippage_val,
                                a.max_favorable, a.max_adverse, a.account_size,
                                duration_minutes)
             ELSE IF per_point = None THEN NoMetrics
             ELSE point_metrics(per_point, a.direction, a.entry, a.stop, a.exit_price,
                                a.take_profit, a.contracts, commission_val, slippage_val,
                                a.max_favorable, a.max_adverse, a.account_size,
                                duration_minutes)

\* ------------------------------------------------------------------------
\* Aggregates of the dashboard
\* ------------------------------------------------------------------------
\* A data frame is the sequence of its rows. A row of df_view is a record
\* [date, pnl]: date is the day of the trade, counted in days from Monday
\* 2024-01-01 (day 0), and pnl is the value of the selected PnL column, a
\* number (render_section fills missing values with 0).
\* the sequence f[1], ..., f[Len(f)] of a function f on 1..n, its elements
\* evaluated once
ToSeq(f) == SubSeq(f, 1, Len(f))

RMax(x, y) == IF RLt(x, y) THEN y ELSE x

RMin(x, y) == IF RLt(y, x) THEN y ELSE x

\* Series.sum()
RECURSIVE Sum(_)
Sum(s) == IF s = <<>> THEN Zero ELSE RAdd(Sum(SubSeq(s, 1, Len(s) - 1)), s[Len(s)])

\* Series.cumsum()
cumsum(s) == ToSeq([i \in 1..Len(s) |-> Sum(SubSeq(s, 1, i))])

RECURSIVE Max(_)
Max(s) == IF Len(s) = 1 THEN s[1] ELSE RMax(Max(SubSeq(s, 1, Len(s) - 1)), s[Len(s)])

RECURSIVE Min(_)
Min(s) == IF Len(s) = 1 THEN s[1] ELSE RMin(Min(SubSeq(s, 1, Len(s) - 1)), s[Len(s)])

\* Series.cummax()
cummax(s) == ToSeq([i \in 1..Len(s) |-> Max(SubSeq(s, 1, i))])

\* Series.mean() of a series that is not empty
Mean(s) == RDiv(Sum(s), Num(Len(s)))

\* the column pnl of a frame
Pnl(df) == ToSeq([i \in 1..Len(df) |-> df[i].pnl])

\* df.sort_values("date"): ascending dates, the rows of one date in the
\* order they had (the sort of a frame of this size is an insertion sort)
sort_values(df) ==
    LET n == Len(df)
        rank(i) == 1 + Cardinality({j \in 1..n : \/ df[j].date < df[i].date
                                                 \/ df[j].date = df[i].date /\ j < i})
    IN  ToSeq([k \in 1..n |-> df[CHOOSE i \in 1..n : rank(i) = k]])

\* the rows with pnl > 0 and the rows with pnl < 0
wins_df(df) == SelectSeq(df, LAMBDA r : RLt(Zero, r.pnl))

losses_df(df) == SelectSeq(df, LAMBDA r : RLt(r.pnl, Zero))

\* the ascending sequence of the numbers of a finite set
RECURSIVE Ascending(_)
Ascending(S) ==
    IF S = {} THEN <<>>
    ELSE LET m == CHOOSE x \in S : \A y \in S : x <= y
         IN  <<m>> \o Ascending(S \ {m})

\* groupby("date").first(): one row per date with the pnl of the first row
\* of that date
groupby_date_sum_First(df) ==
    LET days == Ascending({df[i].date : i \in 1..Len(df)})
    IN  ToSeq([k \in 1..Len(days) |->
                  [date |-> days[k],
                   pnl |-> SelectSeq(df, LAMBDA r : r.date = days[k])[1].pnl]])

\* df.groupby("date", as_index=False)[pnl_col].sum(): one row per date of
\* the frame, in ascending date order, with the sum of that date's pnl
groupby_date_sum(df) ==
    LET days == Ascending({df[i].date : i \in 1..Len(df)})
    IN  ToSeq([k \in 1..Len(days) |->
                  [date |-> days[k],
                   pnl |-> Sum(Pnl(SelectSeq(df, LAMBDA r : r.date = days[k])))]])

\* rolling(5, min_periods=1).mean(): the mean of the last 5 values, of
\* fewer at the start
rolling_mean(s) ==
    ToSeq([i \in 1..Len(s) |-> Mean(SubSeq(s, IF i >= 5 THEN i - 4 ELSE 1, i))])

\* equity = cumsum of the daily pnl with no running total
equity_of_NoCarry(pnl) == pnl

\* equity = pnl.cumsum()
equity_of(pnl) == cumsum(pnl)

\* drawdown = equity - equity.cummax()
drawdown_of_Signed(equity) ==
    LET peak == cummax(equity)
    IN  ToSeq([i \in 1..Len(equity) |-> RSub(peak[i], equity[i])])

drawdown_of(equity) ==
    LET peak == cummax(equity)
    IN  ToSeq([i \in 1..Len(equity) |-> RSub(equity[i], peak[i])])

\* the daily table of render_section: the frame sorted by date, grouped by
\* day, with the columns equity, equity_smooth, peak and drawdown
daily_table(df_view) ==
    LET daily == sort_values(groupby_date_sum(sort_values(df_view)))
        equity == equity_of(Pnl(daily))
        equity_smooth == rolling_mean(equity)
        peak == cummax(equity)
        drawdown == drawdown_of(equity)
    IN  ToSeq([i \in 1..Len(daily) |->
                  [date |-> daily[i].date,
                   pnl |-> daily[i].pnl,
                   equity |-> equity[i],
                   equity_smooth |-> equity_smooth[i],
                   peak |-> peak[i],
                   drawdown |-> drawdown[i]]])

\* _max_drawdown(equity): the largest fall of the series below its running
\* maximum, 0.0 for no series
_max_drawdown(equity) ==
    IF Len(equity) = 0 THEN Zero ELSE RAbs(Min(drawdown_of(equity)))

\* ------------------------------------------------------------------------
\* The profit factors outside the score
\* ------------------------------------------------------------------------
\* float("inf")
Inf == <<1, 0>>

\* _profit_factor(pnl) of summarize_performance: None without wins and
\* losses, inf for wins without losses
_profit_factor(pnl) ==
    LET wins == Sum(SelectSeq(pnl, LAMBDA x : RLt(Zero, x)))
        losses == Sum(SelectSeq(pnl, LAMBDA x : RLt(x, Zero)))
    IN  IF losses = Zero
        THEN (IF wins = Zero THEN None ELSE Inf)
        ELSE RDiv(wins, RAbs(losses))

\* the profit factor of the metric cards of render_section: None ("n/a")
\* whenever the losses sum to 0
card_profit_factor(df_view) ==
    LET loss_sum == IF Len(losses_df(df_view)) > 0 THEN Sum(Pnl(losses_df(df_view))) ELSE Zero
    IN  IF loss_sum # Zero
        THEN RDiv(Sum(Pnl(wins_df(df_view))), RAbs(loss_sum))
        ELSE None

\* ------------------------------------------------------------------------
\* compute_zylo_score
\* ------------------------------------------------------------------------
\* clamp01 without the upper limit
clamp01_NoCeiling(x) == RMax(Zero, x)

\* max(0.0, min(1.0, x))
clamp01(x) == RMax(Zero, RMin(Num(1), x))

scale_linear(value, lo, hi) ==
    IF hi = lo THEN Zero
    ELSE RMul(clamp01(RDiv(RSub(value, lo), RSub(hi, lo))), Num(100))

ScoreNames == {"Win %", "Profit Factor", "Avg Win/Loss", "Consistency", "Max Drawdown"}

weights(k) ==
    CASE k = "Win %" -> Rat(24, 100)
      [] k = "Profit Factor" -> Rat(22, 100)
      [] k = "Avg Win/Loss" -> Rat(18, 100)
      [] k = "Consistency" -> Rat(18, 100)
      [] k = "Max Drawdown" -> Rat(18, 100)

\* profit_factor = wins.sum() / abs(loss_sum) if loss_sum != 0 else 0.0
profit_factor(wins_sum, loss_sum) ==
    IF loss_sum # Zero THEN RDiv(wins_sum, RAbs(loss_sum)) ELSE Zero

\* the Max Drawdown score with the ratio to the total PnL left unclamped
max_drawdown_score_Unclamped(max_drawdown, total_pnl) ==
    IF RLt(Zero, RAbs(total_pnl))
    THEN RMul(RSub(Num(1), RDiv(RDiv(max_drawdown, RAbs(total_pnl)), Rat(3, 2))), Num(100))
    ELSE IF max_drawdown = Zero THEN Num(100) ELSE Zero

\* the Max Drawdown score that is 0 whenever the total PnL is 0
max_drawdown_score_ZeroTotal(max_drawdown, total_pnl) ==
    IF RLt(Zero, RAbs(total_pnl))
    THEN RMul(RSub(Num(1), clamp01(RDiv(RDiv(max_drawdown, RAbs(total_pnl)), Rat(3, 2)))),
              Num(100))
    ELSE Zero

\* scores["Max Drawdown"]: dd_ratio is None when the total PnL is 0
max_drawdown_score(max_drawdown, total_pnl) ==
    IF RLt(Zero, RAbs(total_pnl))
    THEN RMul(RSub(Num(1), clamp01(RDiv(RDiv(max_drawdown, RAbs(total_pnl)), Rat(3, 2)))),
              Num(100))
    ELSE IF max_drawdown = Zero THEN Num(100) ELSE Zero

compute_zylo_score(df_view, daily_df) ==
    LET total_trades == Len(df_view)
        wins == Len(wins_df(df_view))
        win_rate == IF total_trades # 0 THEN RMul(Rat(wins, total_trades), Num(100)) ELSE Zero
        avg_win == IF wins_df(df_view) # <<>> THEN Mean(Pnl(wins_df(df_view))) ELSE Zero
        avg_loss == IF losses_df(df_view) # <<>> THEN Mean(Pnl(losses_df(df_view))) ELSE Zero
        win_loss_ratio == IF avg_loss # Zero THEN RDiv(avg_win, RAbs(avg_loss)) ELSE Zero
        loss_sum == IF losses_df(df_view) # <<>> THEN Sum(Pnl(losses_df(df_view))) ELSE Zero
        pf == profit_factor(Sum(Pnl(wins_df(df_view))), loss_sum)
        equity == cumsum(Pnl(sort_values(df_view)))
        max_drawdown == IF Len(df_view) # 0 THEN RAbs(Min(drawdown_of(equity))) ELSE Zero
        total_pnl == IF total_trades # 0 THEN Sum(Pnl(df_view)) ELSE Zero
        consistency ==
            IF Len(daily_df) # 0
            THEN RMul(Rat(Len(wins_df(daily_df)), Len(daily_df)), Num(100))
            ELSE Zero
        scores ==
            [k \in ScoreNames |->
                CASE k = "Win %" -> scale_linear(win_rate, Num(35), Num(70))
                  [] k = "Profit Factor" -> scale_linear(pf, Num(1), Rat(5, 2))
                  [] k = "Avg Win/Loss" -> scale_linear(win_loss_ratio, Rat(4, 5), Rat(5, 2))
                  [] k = "Consistency" -> scale_linear(consistency, Num(40), Num(75))
                  [] k = "Max Drawdown" -> max_drawdown_score(max_drawdown, total_pnl)]
        overall ==
            RAdd(RAdd(RAdd(RAdd(RMul(scores["Win %"], weights("Win %")),
                                RMul(scores["Profit Factor"], weights("Profit Factor"))),
                           RMul(scores["Avg Win/Loss"], weights("Avg Win/Loss"))),
                      RMul(scores["Consistency"], weights("Consistency"))),
                 RMul(scores["Max Drawdown"], weights("Max Drawdown")))
    IN  [overall |-> RMax(Zero, RMin(Num(100), overall)),
         components |-> scores,
         raw |-> [win_rate |-> win_rate, profit_factor |-> pf,
                  avg_win_loss |-> win_loss_ratio, consistency |-> consistency,
                  max_drawdown |-> max_drawdown]]

\* ------------------------------------------------------------------------
\* compute_streaks
\* ------------------------------------------------------------------------
\* the day of the week of a day, 0 for Monday (day 0 is a Monday)
weekday(date) == date % 7

\* the Sunday that ends the week of a day: the label of its "W-SUN" bucket
week_end(date) == date + (6 - weekday(date))

\* a bucket wins when its pnl is not negative
is_win_NonNegative(pnl) == RLe(Zero, pnl)

\* pnl > 0
is_win(pnl) == RLt(Zero, pnl)

\* the loop over reversed(wins): the number of wins at the end of the list
RECURSIVE current_streak(_)
current_streak(wins) ==
    IF wins = <<>> THEN 0
    ELSE IF wins[Len(wins)] THEN 1 + current_streak(SubSeq(wins, 1, Len(wins) - 1))
    ELSE 0

\* the loop over wins from position i with the counters run and record
RECURSIVE record_loop(_, _, _, _)
record_loop(wins, i, run, record) ==
    IF i > Len(wins) THEN record
    ELSE IF wins[i]
         THEN record_loop(wins, i + 1, run + 1, IF record < run + 1 THEN run + 1 ELSE record)
         ELSE record_loop(wins, i + 1, 0, record)

\* the run at the end of the list in place of the longest run
record_streak_LastRun(wins) == current_streak(wins)

record_streak(wins) == record_loop(wins, 1, 0, 0)

\* resample("W-SUN").sum() that leaves out the weeks without a day
resample_week_sum_NoGaps(d) ==
    LET ends == Ascending({week_end(d[i].date) : i \in 1..Len(d)})
    IN  ToSeq([k \in 1..Len(ends) |->
                  [date |-> ends[k],
                   pnl |-> Sum(Pnl(SelectSeq(d, LAMBDA r : week_end(r.date) = ends[k])))]])

\* d.set_index("date")["pnl"].resample("W-SUN").sum(): one bucket for every
\* week from the week of the first day to the week of the last day, labelled
\* by its Sunday, with the sum of its days (0 for a week without a day)
resample_week_sum(d) ==
    IF Len(d) = 0 THEN <<>>
    ELSE LET first == week_end(d[1].date)
             last == week_end(d[Len(d)].date)
         IN  ToSeq([k \in 1..((last - first) \div 7 + 1) |->
                       [date |-> first + 7 * (k - 1),
                        pnl |-> Sum(Pnl(SelectSeq(d, LAMBDA r :
                                       week_end(r.date) = first + 7 * (k - 1))))]])

compute_streaks(daily_pnl) ==
    IF Len(daily_pnl) = 0
    THEN [daily |-> [current |-> 0, record |-> 0], weekly |-> [current |-> 0, record |-> 0]]
    ELSE LET d == sort_values(daily_pnl)
             wins == ToSeq([i \in 1..Len(d) |-> is_win(d[i].pnl)])
             wk == resample_week_sum(d)
             wlist == ToSeq([i \in 1..Len(wk) |-> is_win(wk[i].pnl)])
         IN  [daily |-> [current |-> current_streak(wins), record |-> record_streak(wins)],
              weekly |-> [current |-> current_streak(wlist), record |-> record_streak(wlist)]]

\* ------------------------------------------------------------------------
\* render_pnl_calendar
\* ------------------------------------------------------------------------
\* the day number of the first day of month m of 2024
RECURSIVE month_start(_)
month_start(m) == IF m = 1 THEN 0 ELSE month_start(m - 1) + DaysInMonth(2024, m - 1)

\* date.month for a day of 2024, of December 2023 or of January 2025
month_of(date) ==
    IF date < 0 THEN 12
    ELSE IF date >= month_start(12) + 31 THEN 1
    ELSE CHOOSE m \in 1..12 :
             month_start(m) <= date /\ date < month_start(m) + DaysInMonth(2024, m)

\* the weeks of a calendar whose weeks start on Monday
monthdatescalendar_MondayFirst(month) ==
    LET first == month_start(month)
        back == weekday(first)
        n == (back + DaysInMonth(2024, month) + 6) \div 7
    IN  ToSeq([w \in 1..n |-> ToSeq([c \in 1..7 |-> first - back + 7 * (w - 1) + (c - 1)])])

\* calendar.Calendar(firstweekday=6).monthdatescalendar(2024, month): the
\* full weeks, Sunday first, from the week of the first day of the month to
\* the week of its last day
monthdatescalendar(month) ==
    LET first == month_start(month)
        back == (weekday(first) + 1) % 7
        n == (back + DaysInMonth(2024, month) + 6) \div 7
    IN  ToSeq([w \in 1..n |-> ToSeq([c \in 1..7 |-> first - back + 7 * (w - 1) + (c - 1)])])

\* df.groupby("date")[pnl_col].agg(pnl="sum", trades="count") with the
\* column month: one row per date, with the sum and the number of its trades
calendar_daily(df) ==
    LET days == Ascending({df[i].date : i \in 1..Len(df)})
    IN  ToSeq([k \in 1..Len(days) |->
                  LET rows == SelectSeq(df, LAMBDA r : r.date = days[k])
                  IN  [date |-> days[k], pnl |-> Sum(Pnl(rows)), trades |-> Len(rows),
                       month |-> month_of(days[k])]])

\* the sum of a sequence of counts
RECURSIVE count_sum(_)
count_sum(s) == IF s = <<>> THEN 0 ELSE count_sum(SubSeq(s, 1, Len(s) - 1)) + s[Len(s)]

\* month_daily.get(day, (0, 0)) if in_month else (0, 0)
month_daily_get(month_df, day, in_month) ==
    LET hit == SelectSeq(month_df, LAMBDA r : r.date = day)
    IN  IF in_month /\ Len(hit) > 0
        THEN [value |-> hit[Len(hit)].pnl, trades |-> hit[Len(hit)].trades]
        ELSE [value |-> Zero, trades |-> 0]

\* render_pnl_calendar(df, pnl_col) with the month chosen in the select box:
\* the month total and, for every week of the grid, its seven cells, its
\* total, its number of trades and its dates of the month. No calendar is
\* shown for a frame without rows.
render_pnl_calendar(df, month) ==
    IF Len(df) = 0
    THEN [shown |-> FALSE, month |-> 0, month_total |-> Zero, weeks |-> <<>>]
    ELSE LET month_df == SelectSeq(calendar_daily(df), LAMBDA r : r.month = month)
             grid == monthdatescalendar(month)
             week(w) ==
                 LET cells == ToSeq([c \in 1..7 |->
                         LET day == grid[w][c]
                             in_month == month_of(day) = month
                             got == month_daily_get(month_df, day, in_month)
                         IN  [day |-> day, in_month |-> in_month,
                              value |-> got.value, trades |-> got.trades]])
                     inside == SelectSeq(cells, LAMBDA x : x.in_month)
                 IN  [cells |-> cells,
                      week_total |-> Sum(ToSeq([i \in 1..Len(inside) |-> inside[i].value])),
                      week_trades |-> count_sum(ToSeq([i \in 1..Len(inside) |-> inside[i].trades])),
                      week_dates |-> ToSeq([i \in 1..Len(inside) |-> inside[i].day])]
         IN  [shown |-> TRUE, month |-> month, month_total |-> Sum(Pnl(month_df)),
              weeks |-> ToSeq([w \in 1..Len(grid) |-> week(w)])]

\* ------------------------------------------------------------------------
\* Rollups of the dashboard and of the analytics page
\* ------------------------------------------------------------------------
\* A row of a loaded frame is a record [date, pnl, entry_time, instrument,
\* session]; entry_time is a string or None.
\* prepare_df: the column entry_hour = entry_time.apply(parse_time_hour)
prepare_df(df) ==
    ToSeq([i \in 1..Len(df) |->
              [date |-> df[i].date, pnl |-> df[i].pnl, entry_time |-> df[i].entry_time,
               instrument |-> df[i].instrument, session |-> df[i].session,
               entry_hour |-> parse_time_hour(df[i].entry_time)]])

day_order == <<"Monday", "Tuesday", "Wednesday", "Thursday", "Friday", "Saturday", "Sunday">>

\* Series.dt.day_name()
day_name(date) == day_order[weekday(date) + 1]

\* df.groupby(key)[pnl_col].agg(["sum", "count"]): one row for each value
\* of the column key in the frame, with the sum of the pnl and the number of
\* its rows
groupby_agg(df, key) ==
    {[key |-> k,
      sum |-> Sum(Pnl(SelectSeq(df, LAMBDA r : r[key] = k))),
      count |-> Len(SelectSeq(df, LAMBDA r : r[key] = k))] :
        k \in {df[i][key] : i \in 1..Len(df)}}

\* the rollups render_section makes of the filtered frame: by weekday, by
\* entry hour (of the rows that have one), by instrument and by session
rollups(df_view) ==
    LET sorted == sort_values(df_view)
        chart_df == ToSeq([i \in 1..Len(sorted) |->
                              [date |-> sorted[i].date, pnl |-> sorted[i].pnl,
                               entry_time |-> sorted[i].entry_time,
                               instrument |-> sorted[i].instrument,
                               session |-> sorted[i].session,
                               entry_hour |-> sorted[i].entry_hour,
                               day |-> day_name(sorted[i].date)]])
        hour_df == SelectSeq(chart_df, LAMBDA r : r.entry_hour # None)
    IN  [day_perf |-> groupby_agg(chart_df, "day"),
         hour_perf |-> groupby_agg(hour_df, "entry_hour"),
         instrument_df |-> groupby_agg(chart_df, "instrument"),
         session_df |-> groupby_agg(chart_df, "session")]

\* ------------------------------------------------------------------------
\* State
\* ------------------------------------------------------------------------
VARIABLES
    trades,     \* the rows of the trades table of one user and account type
    uploads,    \* the number of images in storage
    calls,      \* the compute_metrics calls of the latest handler run:
                \* records [path, a, m] of the calling handler, the arguments
                \* and the returned metrics
    msg,        \* the message the latest handler run showed
    nSaved,     \* ids handed out so far (an id is never handed out twice)
    nRuns,      \* handler runs so far
    df_view,    \* the trades the dashboard is computed from
    daily_df,   \* <<the daily table>> once it is built, <<>> before
    zylo,       \* <<the result of compute_zylo_score>>, <<>> before
    streaks,    \* <<the result of compute_streaks>>, <<>> before
    max_dd,     \* <<the max drawdown of summarize_performance>>, <<>> before
    cal,        \* <<the result of render_pnl_calendar>>, <<>> before
    rollup,     \* <<the rollups of the analytics page>>, <<>> before
    pf,         \* the profit factors shown: records [by, value] of the computing function
    PAYWALL_ENABLED,   \* the secret PAYWALL_ENABLED of the deployment
    ent,        \* <<the row of the user in the table entitlements>>, <<>> without one
    pc,         \* for each session of the user, where its save handler is: "idle",
                \* or "allowed" between the trade limit check and the insert
    nav_section,           \* st.session_state["nav_section"], "absent" when the
                           \* key is not set
    top_nav_section,       \* the key of the select box "Go to"
    sidebar_nav_section,   \* the key of the radio "Go to" of the sidebar
    section_param,         \* the query parameter "section" of the URL, "" without one
    section,               \* the section the latest script run rendered
    time_value,            \* a value given to normalize_time_input
    time_norm              \* <<normalize_time_input(time_value)>>, <<>> before

journalVars == <<trades, uploads, calls, msg, nSaved, nRuns, PAYWALL_ENABLED, ent, pc>>

dashVars == <<df_view, daily_df, zylo, streaks, max_dd>>

\* what the other pages and sessions hold
pageVars ==
    <<cal, rollup, pf, nav_section, top_nav_section, sidebar_nav_section, section_param,
      section, time_value, time_norm>>

vars ==
    <<trades, uploads, calls, msg, nSaved, nRuns, df_view, daily_df, zylo, streaks, max_dd,
      cal, rollup, pf, PAYWALL_ENABLED, ent, pc, nav_section, top_nav_section,
      sidebar_nav_section, section_param, section, time_value, time_norm>>

\* the sessions (browser tabs) of the user
Sessions == {1, 2}

\* nothing rendered on the other pages, no script run yet
PagesBlank ==
    /\ cal = <<>>
    /\ rollup = <<>>
    /\ pf = {}
    /\ pc = [s \in Sessions |-> "idle"]
    /\ nav_section = "absent"
    /\ top_nav_section = "absent"
    /\ sidebar_nav_section = "absent"
    /\ section_param = ""
    /\ section = "absent"
    /\ time_value = <<>>
    /\ time_norm = <<>>

\* A row holds the columns that feed compute_metrics, the images column and,
\* under "metrics", the computed columns that row.update(metrics) stores.
RawColumns ==
    {"date", "entry_time", "exit_time", "instrument", "direction", "entry_price",
     "stop_loss", "take_profit", "exit_price", "contracts", "account_size",
     "commission", "slippage", "max_favorable_price", "max_adverse_price"}

\* ------------------------------------------------------------------------
\* The submissions of the "Save trade" form
\* ------------------------------------------------------------------------
\* Widgets bound the inputs: instrument from INSTRUMENT_ORDER, direction
\* Long or Short, contracts an integer >= 1, every price and fee >= 0.
FormNQ ==
    [date_val |-> <<"2", "0", "2", "4", "-", "0", "3", "-", "1", "5">>, use_times |-> FALSE,
     entry_time |-> <<"0", "9", ":", "3", "0">>, exit_time |-> <<"1", "0", ":", "0", "0">>,
     entry_time_custom |-> <<>>, exit_time_custom |-> <<>>,
     instrument |-> S_NQ, direction |-> S_Long, contracts |-> Num(1),
     entry |-> Num(18000), stop |-> Num(17980), take_profit |-> Zero,
     exit_price |-> Num(18050), account_size |-> Zero,
     commission |-> Num(4), slippage |-> Num(1),
     max_favorable_price |-> Zero, max_adverse_price |-> Zero,
     uploaded_files |-> 0]

FormUSDJPY ==
    [FormNQ EXCEPT !.instrument = S_USDJPY, !.use_times = TRUE,
                   !.entry_time_custom = <<"1", "5", ":", "4", "4">>,
                   !.entry = Num(150), !.stop = Rat(299, 2), !.exit_price = Rat(603, 4),
                   !.commission = Zero, !.slippage = Zero]

FormEURUSD ==
    [FormNQ EXCEPT !.instrument = S_EURUSD, !.direction = S_Short, !.contracts = Num(2),
                   !.entry = Rat(11000, 10000), !.stop = Rat(11010, 10000),
                   !.exit_price = Rat(10980, 10000), !.take_profit = Rat(10970, 10000),
                   !.max_favorable_price = Rat(10975, 10000),
                   !.max_adverse_price = Rat(11005, 10000),
                   !.commission = Num(5), !.slippage = Zero,
                   !.account_size = Num(10000), !.uploaded_files = 1]

FormMES ==
    [FormNQ EXCEPT !.instrument = S_MES, !.direction = S_Short, !.contracts = Num(3),
                   !.use_times = TRUE, !.entry_time_custom = <<"9", "3", "0">>,
                   !.exit_time_custom = <<"1", "0", ":", "1", "5", ":", "3", "0">>,
                   !.entry = Num(5000), !.stop = Num(5010), !.exit_price = Rat(20017, 4),
                   !.take_profit = Num(4980), !.max_favorable_price = Num(4990),
                   !.max_adverse_price = Num(5008), !.commission = Zero,
                   !.account_size = Num(50000)]

\* rejected: the entry price is left at 0
FormNoEntry == [FormNQ EXCEPT !.entry = Zero]

\* rejected: the custom entry time is no time
FormBadTime == [FormNQ EXCEPT !.use_times = TRUE, !.entry_time_custom = <<"2", "5", "h">>]

Forms == {FormNQ, FormUSDJPY, FormEURUSD, FormMES, FormNoEntry, FormBadTime}

\* ------------------------------------------------------------------------
\* The cells the data editor lets the user change, and the values typed
\* ------------------------------------------------------------------------
Numbers(row) == {None, Zero, row.entry_price, row.stop_loss, row.exit_price}

CellValues(row, col) ==
    CASE col = "instrument" ->
             {NoneStr, <<>>, <<" ">>, <<" ", "n", "q">>, <<"m", "g", "c">>, <<"X", "Y", "Z">>}
      [] col = "direction" ->
             {NoneStr, S_Long, S_Short, <<" ", "b", "u", "y">>, <<"b", "e", "a", "r">>, <<"S">>, <<"h", "o", "l", "d">>}
      [] col \in {"entry_price", "stop_loss", "exit_price", "take_profit",
                  "max_favorable_price", "max_adverse_price"} -> Numbers(row)
      [] col = "contracts" -> {None, Zero, Num(0 - 1), Rat(5, 2), Num(3)}
      [] col = "commission" -> {None, Zero, Num(0 - 2), Num(2500)}
      [] col = "slippage" -> {None, Num(3)}
      [] col = "account_size" -> {None, Zero, Num(25000)}
      [] col = "date" -> {NoneStr, <<"2", "0", "2", "4", "-", "0", "2", "-", "3", "0">>}
      [] col = "entry_time" -> {NoneStr, <<"9", ":", "5">>, <<"2", "3", "6", "0">>}
      [] col = "exit_time" -> {<<"0", "7", ":", "1", "5", ":", "3", "0">>, <<"a", "b", "c">>}

\* ------------------------------------------------------------------------
\* Handlers
\* ------------------------------------------------------------------------
\* is_unlimited(entitlement): no readable entitlement, a paid plan or no
\* trade limit
is_unlimited(entitlement) ==
    \/ entitlement = <<>>
    \/ entitlement[1].plan \in {"pro", "grandfathered", "lifetime"}
    \/ entitlement[1].trade_limit = <<>>

\* count_total_trades(user_id): <<the number of trades of the user over all
\* account types>>; <<>> (None) is the answer when the count fails
count_total_trades(rows) == <<Cardinality(rows)>>

\* a check that lets every save go on
enforce_trade_limit_or_warn_Open(entitlement, current) == TRUE

\* enforce_trade_limit_or_warn with the entitlement and the count it reads:
\* TRUE when the save may go on
enforce_trade_limit_or_warn(entitlement, current) ==
    IF ~PAYWALL_ENABLED THEN TRUE
    ELSE IF is_unlimited(entitlement) THEN TRUE
    ELSE IF current = <<>> THEN TRUE
    ELSE ~(current[1] >= entitlement[1].trade_limit[1])

\* x if x > 0 else None (to_float of the optional inputs of the form)
PositiveOrNone(x) == IF RLt(Zero, x) THEN x ELSE None

RoundOrNone(x) == IF x = None THEN None ELSE Round2(x)

\* the times a submission stores: the 15-minute choices, replaced by the
\* custom text where it normalizes to a time; nothing without use_times
entry_time_of(f) ==
    IF ~f.use_times THEN NoneStr
    ELSE IF normalize_time_input(f.entry_time_custom) \notin {NoneStr, <<>>}
    THEN normalize_time_input(f.entry_time_custom) ELSE f.entry_time

exit_time_of(f) ==
    IF ~f.use_times THEN NoneStr
    ELSE IF normalize_time_input(f.exit_time_custom) \notin {NoneStr, <<>>}
    THEN normalize_time_input(f.exit_time_custom) ELSE f.exit_time

\* the arguments the save handler passes to compute_metrics
SaveArgs(f) ==
    [instrument |-> f.instrument, direction |-> f.direction,
     entry |-> f.entry, stop |-> f.stop, exit_price |-> f.exit_price,
     take_profit |-> PositiveOrNone(f.take_profit), contracts |-> Trunc(f.contracts),
     commission |-> f.commission, slippage |-> f.slippage,
     max_favorable |-> PositiveOrNone(f.max_favorable_price),
     max_adverse |-> PositiveOrNone(f.max_adverse_price),
     account_size |-> PositiveOrNone(f.account_size),
     date_str |-> f.date_val,
     entry_time_str |-> entry_time_of(f), exit_time_str |-> exit_time_of(f)]

\* the row the save handler builds: prices rounded to cents, the metrics of
\* the unrounded inputs
SaveRow(f, id, images) ==
    [id |-> id,
     date |-> f.date_val,
     entry_time |-> entry_time_of(f),
     exit_time |-> exit_time_of(f),
     instrument |-> f.instrument,
     direction |-> f.direction,
     entry_price |-> Round2(f.entry),
     stop_loss |-> Round2(f.stop),
     take_profit |-> RoundOrNone(PositiveOrNone(f.take_profit)),
     exit_price |-> Round2(f.exit_price),
     contracts |-> Trunc(f.contracts),
     account_size |-> PositiveOrNone(f.account_size),
     commission |-> f.commission,
     slippage |-> f.slippage,
     max_favorable_price |-> RoundOrNone(PositiveOrNone(f.max_favorable_price)),
     max_adverse_price |-> RoundOrNone(PositiveOrNone(f.max_adverse_price)),
     images |-> images,
     metrics |-> compute_metrics(SaveArgs(f))]

\* "Save trade" pressed on the form f; stored of its images reach storage
\* and dbOk tells whether the upsert of the row succeeds
SaveTrade(f, stored, dbOk) ==
    /\ nRuns < MaxRuns
    /\ nRuns' = nRuns + 1
    /\ UNCHANGED dashVars
    /\ UNCHANGED pageVars
    /\ UNCHANGED <<PAYWALL_ENABLED, ent, pc>>
    /\ IF ~enforce_trade_limit_or_warn(ent, count_total_trades(trades))
       THEN msg' = "limit" /\ calls' = {} /\ UNCHANGED <<trades, uploads, nSaved>>
       ELSE IF RLe(f.entry, Zero) \/ RLe(f.stop, Zero) \/ RLe(f.exit_price, Zero)
       THEN msg' = "prices" /\ calls' = {} /\ UNCHANGED <<trades, uploads, nSaved>>
       ELSE IF f.use_times /\ f.entry_time_custom # <<>>
               /\ normalize_time_input(f.entry_time_custom) = NoneStr
       THEN msg' = "entry_time" /\ calls' = {} /\ UNCHANGED <<trades, uploads, nSaved>>
       ELSE IF f.use_times /\ f.exit_time_custom # <<>>
               /\ normalize_time_input(f.exit_time_custom) = NoneStr
       THEN msg' = "exit_time" /\ calls' = {} /\ UNCHANGED <<trades, uploads, nSaved>>
       ELSE /\ uploads' = uploads + stored
            /\ calls' = {[path |-> "save", a |-> SaveArgs(f),
                          m |-> compute_metrics(SaveArgs(f))]}
            /\ nSaved' = nSaved + 1
            /\ IF dbOk
               THEN trades' = trades \cup {SaveRow(f, nSaved + 1, stored)} /\ msg' = "saved"
               ELSE UNCHANGED trades /\ msg' = "failed"

\* the arguments the edit handler passes to compute_metrics for a row of
\* the data editor
EditArgs(row_dict) ==
    [instrument |-> normalize_instrument(row_dict.instrument),
     direction |-> normalize_direction(row_dict.direction),
     entry |-> to_float(row_dict.entry_price),
     stop |-> to_float(row_dict.stop_loss),
     exit_price |-> to_float(row_dict.exit_price),
     take_profit |-> to_float(row_dict.take_profit),
     contracts |-> to_int(row_dict.contracts),
     commission |-> to_float(row_dict.commission),
     slippage |-> to_float(row_dict.slippage),
     max_favorable |-> to_float(row_dict.max_favorable_price),
     max_adverse |-> to_float(row_dict.max_adverse_price),
     account_size |-> to_float(row_dict.account_size),
     date_str |-> row_dict.date,
     entry_time_str |-> normalize_time_input(row_dict.entry_time),
     exit_time_str |-> normalize_time_input(row_dict.exit_time)]

\* the row update_trade writes back for a row of the data editor
EditRow(row_dict) ==
    [row_dict EXCEPT !.entry_time = normalize_time_input(row_dict.entry_time),
                     !.exit_time = normalize_time_input(row_dict.exit_time),
                     !.metrics = compute_metrics(EditArgs(row_dict))]

\* what the user did in the data editor before pressing the button:
\* nothing, ticked "delete" on a row, or typed a value into a cell
Edits ==
    {[kind |-> "none"]}
    \cup {[kind |-> "delete", id |-> r.id] : r \in trades}
    \cup UNION {UNION {{[kind |-> "cell", id |-> r.id, col |-> col, value |-> v] :
                          v \in CellValues(r, col)} : col \in RawColumns} : r \in trades}

\* the rows of the data editor after the edit e
Edited(e) ==
    {IF e.kind = "cell" /\ e.id = r.id THEN [r EXCEPT ![e.col] = e.value] ELSE r :
        r \in {q \in trades : ~(e.kind = "delete" /\ e.id = q.id)}}

\* "Apply edits and deletions" pressed: the ticked rows are deleted, every
\* other row is written back with its metrics recomputed
ApplyEdits(e) ==
    /\ trades # {}
    /\ nRuns < MaxRuns
    /\ nRuns' = nRuns + 1
    /\ trades' = {EditRow(r) : r \in Edited(e)}
    /\ calls' = {[path |-> "edit", a |-> EditArgs(r), m |-> compute_metrics(EditArgs(r))] :
                    r \in Edited(e)}
    /\ msg' = "changes"
    /\ UNCHANGED <<uploads, nSaved, PAYWALL_ENABLED, ent, pc>>
    /\ UNCHANGED dashVars
    /\ UNCHANGED pageVars

Init ==
    /\ trades = {}
    /\ uploads = 0
    /\ calls = {}
    /\ msg = "none"
    /\ nSaved = 0
    /\ nRuns = 0
    /\ \/ PAYWALL_ENABLED = FALSE /\ ent = <<>>
       \/ /\ PAYWALL_ENABLED = TRUE
          /\ ent \in {<<[plan |-> "free", trade_limit |-> <<1>>]>>,
                      <<[plan |-> "pro", trade_limit |-> <<>>]>>}
    /\ df_view = <<>>
    /\ daily_df = <<>>
    /\ zylo = <<>>
    /\ streaks = <<>>
    /\ max_dd = <<>>
    /\ PagesBlank

Next ==
    \/ \E f \in Forms : \E stored \in 0..f.uploaded_files : \E dbOk \in BOOLEAN :
           SaveTrade(f, stored, dbOk)
    \/ \E e \in Edits : ApplyEdits(e)

Spec == Init /\ [][Next]_vars

\* ------------------------------------------------------------------------
\* The dashboard and the streaks page over a set of loaded trades
\* ------------------------------------------------------------------------
\* The trades a frame is drawn from: wins on Monday 2024-01-01, Sunday
\* 2024-01-07, Monday 2024-01-22 and Tuesday 2024-01-23, losses on Tuesday
\* 2024-01-02, on Monday 2024-01-08 and on the same Tuesday 2024-01-23. The
\* week of 2024-01-15 has no trade.
TradePool ==
    {[date |-> 0, pnl |-> Num(10)], [date |-> 1, pnl |-> Num(0 - 9)],
     [date |-> 6, pnl |-> Num(5)], [date |-> 7, pnl |-> Num(0 - 3)],
     [date |-> 21, pnl |-> Num(2)], [date |-> 22, pnl |-> Num(2)],
     [date |-> 22, pnl |-> Num(0 - 2)]}

\* the frames of at most MaxTrades different trades, in any order
\* (load_trades selects the rows without an ordering)
Frames ==
    UNION {{f \in [1..n -> TradePool] : \A i, j \in 1..n : i # j => f[i] # f[j]} :
              n \in 0..MaxTrades}

DashInit ==
    /\ trades = {}
    /\ uploads = 0
    /\ calls = {}
    /\ msg = "none"
    /\ nSaved = 0
    /\ nRuns = 0
    /\ PAYWALL_ENABLED = FALSE
    /\ ent = <<>>
    /\ df_view \in Frames
    /\ daily_df = <<>>
    /\ zylo = <<>>
    /\ streaks = <<>>
    /\ max_dd = <<>>
    /\ PagesBlank

\* the dashboard, rendered once for a frame: the daily table with its equity
\* and drawdown columns, and the score of the trades and that table. The
\* functions are applied to every frame, the one without rows included.
RenderDashboard ==
    /\ zylo = <<>>
    /\ daily_df' = <<daily_table(df_view)>>
    /\ zylo' = <<compute_zylo_score(df_view, daily_df'[1])>>
    /\ pf' = pf \cup {[by |-> "render_section", value |-> card_profit_factor(df_view)]}
    /\ UNCHANGED <<df_view, streaks, max_dd>>
    /\ UNCHANGED journalVars
    /\ UNCHANGED <<cal, rollup, nav_section, top_nav_section, sidebar_nav_section, section_param,
                 section, time_value, time_norm>>

\* the streaks page, rendered once for a frame: the streaks of the daily sums
\* and the max drawdown of summarize_performance, taken on the equity trade
\* by trade
RenderStreaksPage ==
    /\ streaks = <<>>
    /\ streaks' = <<compute_streaks(sort_values(groupby_date_sum(df_view)))>>
    /\ max_dd' = <<_max_drawdown(cumsum(Pnl(sort_values(df_view))))>>
    /\ pf' = pf \cup {[by |-> "summarize_performance", value |-> _profit_factor(Pnl(df_view))]}
    /\ UNCHANGED <<df_view, daily_df, zylo>>
    /\ UNCHANGED journalVars
    /\ UNCHANGED <<cal, rollup, nav_section, top_nav_section, sidebar_nav_section, section_param,
                 section, time_value, time_norm>>

DashNext ==
    \/ RenderDashboard
    \/ RenderStreaksPage

DashSpec == DashInit /\ [][DashNext]_vars

\* ------------------------------------------------------------------------
\* Two sessions of one user on the free plan, paywall enabled. The user has
\* at most as many trades as the plan allows; a row is a record [id, by,
\* account_type] of its id, the session that saved it (0 for a trade that
\* was there before) and its account type.
PaywallInit ==
    /\ \E L \in 1..2 : \E n \in 0..L :
           /\ ent = <<[plan |-> "free", trade_limit |-> <<L>>]>>
           /\ trades = {[id |-> i, by |-> 0, account_type |-> "Live Account Data"] : i \in 1..n}
           /\ nSaved = n
    /\ PAYWALL_ENABLED = TRUE
    /\ uploads = 0
    /\ calls = {}
    /\ msg = "none"
    /\ nRuns = 0
    /\ df_view = <<>>
    /\ daily_df = <<>>
    /\ zylo = <<>>
    /\ streaks = <<>>
    /\ max_dd = <<>>
    /\ PagesBlank

\* session s submits the form "Save trade": the handler reads the
\* entitlement and the trade count and shows the limit message, or goes on
SubmitSave(s) ==
    /\ pc[s] = "idle"
    /\ nRuns < MaxRuns
    /\ nRuns' = nRuns + 1
    /\ IF enforce_trade_limit_or_warn(ent, count_total_trades(trades))
       THEN pc' = [pc EXCEPT ![s] = "allowed"] /\ msg' = "none"
       ELSE pc' = pc /\ msg' = "limit"
    /\ UNCHANGED <<trades, uploads, calls, nSaved, PAYWALL_ENABLED, ent>>
    /\ UNCHANGED dashVars
    /\ UNCHANGED pageVars

\* the rest of the handler of session s after the check: the form is
\* refused (a price not above 0, a time that is not HH:MM), or save_trade
\* upserts the row with a fresh id, or save_trade raises
FinishSave(s, account_type, valid, dbOk) ==
    /\ pc[s] = "allowed"
    /\ pc' = [pc EXCEPT ![s] = "idle"]
    /\ IF ~valid
       THEN msg' = "prices" /\ UNCHANGED <<trades, nSaved>>
       ELSE /\ nSaved' = nSaved + 1
            /\ IF dbOk
               THEN /\ trades' = trades \cup {[id |-> nSaved + 1, by |-> s,
                                               account_type |-> account_type]}
                    /\ msg' = "saved"
               ELSE UNCHANGED trades /\ msg' = "failed"
    /\ UNCHANGED <<uploads, calls, nRuns, PAYWALL_ENABLED, ent>>
    /\ UNCHANGED dashVars
    /\ UNCHANGED pageVars

PaywallSpec ==
    PaywallInit /\
    [][\E s \in Sessions :
           \/ SubmitSave(s)
           \/ \E account_type \in {"Evaluation Account Data", "Funded Account Data"} :
                  \E valid, dbOk \in BOOLEAN : FinishSave(s, account_type, valid, dbOk)]_vars

\* ------------------------------------------------------------------------
\* The trades a calendar is drawn from: Monday 2024-01-01, Sunday 2024-01-28,
\* two on Wednesday 2024-01-31, Thursday 2024-02-01 and Saturday 2024-02-03
\* in the same week of the grid, and Sunday 2024-02-04.
CalendarPool ==
    {[date |-> 0, pnl |-> Num(10)], [date |-> 27, pnl |-> Num(4)],
     [date |-> 30, pnl |-> Num(0 - 6)], [date |-> 30, pnl |-> Num(1)],
     [date |-> 31, pnl |-> Num(8)], [date |-> 33, pnl |-> Num(0 - 5)],
     [date |-> 34, pnl |-> Num(3)]}

\* a frame of at most MaxTrades different trades of the pool, in any order
CalInit ==
    /\ trades = {}
    /\ uploads = 0
    /\ calls = {}
    /\ msg = "none"
    /\ nSaved = 0
    /\ nRuns = 0
    /\ PAYWALL_ENABLED = FALSE
    /\ ent = <<>>
    /\ df_view \in UNION {{f \in [1..n -> CalendarPool] :
                                \A i, j \in 1..n : i # j => f[i] # f[j]} : n \in 0..MaxTrades}
    /\ daily_df = <<>>
    /\ zylo = <<>>
    /\ streaks = <<>>
    /\ max_dd = <<>>
    /\ PagesBlank

\* the calendar of the dashboard, rendered once from the frame sorted by
\* date, with a month of the select box (sorted(daily["month"].unique()))
RenderPnlCalendar(month_choice) ==
    /\ cal = <<>>
    /\ \/ \E i \in 1..Len(df_view) : month_choice = month_of(df_view[i].date)
       \/ Len(df_view) = 0 /\ month_choice = 1
    /\ cal' = <<render_pnl_calendar(sort_values(df_view), month_choice)>>
    /\ UNCHANGED journalVars
    /\ UNCHANGED dashVars
    /\ UNCHANGED <<rollup, pf, nav_section, top_nav_section, sidebar_nav_section, section_param,
                 section, time_value, time_norm>>

CalSpec == CalInit /\ [][\E month_choice \in 1..12 : RenderPnlCalendar(month_choice)]_vars

\* ------------------------------------------------------------------------
\* The trades the rollups are drawn from, as load_trades returns them: three
\* with an entry time that parses ("09:30", "9:05" in the same hour, and
\* "14:45"), and four without (None, "25:00", "0930" and "09:30:00").
RollupPool ==
    {[date |-> 0, pnl |-> Num(10), entry_time |-> <<"0", "9", ":", "3", "0">>,
      instrument |-> S_NQ, session |-> "NY"],
     [date |-> 0, pnl |-> Num(0 - 4), entry_time |-> NoneStr,
      instrument |-> S_NQ, session |-> "London"],
     [date |-> 1, pnl |-> Num(6), entry_time |-> <<"9", ":", "0", "5">>,
      instrument |-> S_ES, session |-> "NY"],
     [date |-> 1, pnl |-> Num(0 - 3), entry_time |-> <<"2", "5", ":", "0", "0">>,
      instrument |-> S_ES, session |-> "Asia"],
     [date |-> 7, pnl |-> Num(2), entry_time |-> <<"1", "4", ":", "4", "5">>,
      instrument |-> S_NQ, session |-> "NY"],
     [date |-> 8, pnl |-> Num(0 - 1), entry_time |-> <<"0", "9", "3", "0">>,
      instrument |-> S_MNQ, session |-> "London"],
     [date |-> 9, pnl |-> Num(5), entry_time |-> <<"0", "9", ":", "3", "0", ":", "0", "0">>,
      instrument |-> S_ES, session |-> "NY"]}

\* a frame of at most MaxTrades different trades of the pool, in any order
RollupInit ==
    /\ trades = {}
    /\ uploads = 0
    /\ calls = {}
    /\ msg = "none"
    /\ nSaved = 0
    /\ nRuns = 0
    /\ PAYWALL_ENABLED = FALSE
    /\ ent = <<>>
    /\ df_view \in UNION {{f \in [1..n -> RollupPool] :
                                \A i, j \in 1..n : i # j => f[i] # f[j]} : n \in 0..MaxTrades}
    /\ daily_df = <<>>
    /\ zylo = <<>>
    /\ streaks = <<>>
    /\ max_dd = <<>>
    /\ PagesBlank

\* render_section on the dashboard or the analytics page, once for a loaded
\* frame: prepare_df, then the daily table and the rollups. Nothing is built
\* for a frame without rows.
RenderRollups ==
    /\ rollup = <<>>
    /\ Len(df_view) > 0
    /\ daily_df' = <<daily_table(prepare_df(df_view))>>
    /\ rollup' = <<rollups(prepare_df(df_view))>>
    /\ UNCHANGED <<df_view, zylo, streaks, max_dd>>
    /\ UNCHANGED journalVars
    /\ UNCHANGED <<cal, pf, nav_section, top_nav_section, sidebar_nav_section, section_param,
                 section, time_value, time_norm>>

RollupSpec == RollupInit /\ [][RenderRollups]_vars

\* ------------------------------------------------------------------------
\* Navigation of a logged-in session. A key of st.session_state that is not
\* set is "absent"; section_param is the query parameter after strip(), which
\* the script reads on every run and never removes from the URL.
section_options ==
    <<"Dashboard", "New Trade", "Analytics", "PnL Calendar", "Reports",
      "Streaks & Milestones", "Journal", "Strategy/Model Creation", "Affiliates">>

\* the script from the query parameter to the creation of the widgets: the
\* three keys after it, from the keys before it and the pending _nav_request
nav_script(nav, top, side, param, pending) ==
    LET options == {section_options[i] : i \in 1..Len(section_options)}
        nav1 == IF nav = "absent"
                THEN IF param \in options THEN param ELSE section_options[1]
                ELSE nav
        nav2 == IF param # "" /\ param \in options THEN param ELSE nav1
        applies == pending # "" /\ pending \in options
        nav3 == IF applies THEN pending ELSE nav2
        top1 == IF applies THEN pending ELSE top
        side1 == IF applies THEN pending ELSE side
    IN  [nav_section |-> nav3,
         top_nav_section |-> IF top1 = "absent" THEN nav3 ELSE top1,
         sidebar_nav_section |-> IF side1 = "absent" THEN nav3 ELSE side1]

\* a new session of a logged-in user, before its first script run, opened
\* on a URL without a section, with one of the sections, or with another word
NavInit ==
    /\ section_param \in {""} \cup {section_options[i] : i \in 1..Len(section_options)}
                          \cup {"Billing"}
    /\ nav_section = "absent"
    /\ top_nav_section = "absent"
    /\ sidebar_nav_section = "absent"
    /\ section = "absent"
    /\ trades = {}
    /\ uploads = 0
    /\ calls = {}
    /\ msg = "none"
    /\ nSaved = 0
    /\ nRuns = 0
    /\ PAYWALL_ENABLED = FALSE
    /\ ent = <<>>
    /\ pc = [s \in Sessions |-> "idle"]
    /\ df_view = <<>>
    /\ daily_df = <<>>
    /\ zylo = <<>>
    /\ streaks = <<>>
    /\ max_dd = <<>>
    /\ cal = <<>>
    /\ rollup = <<>>
    /\ pf = {}
    /\ time_value = <<>>
    /\ time_norm = <<>>

\* one script run from the keys nav, top and side: the keys after it, and
\* the section read from nav_section where the page is chosen
RunScript(nav, top, side, pending) ==
    LET after == nav_script(nav, top, side, section_param, pending)
    IN  /\ nav_section' = after.nav_section
        /\ top_nav_section' = after.top_nav_section
        /\ sidebar_nav_section' = after.sidebar_nav_section
        /\ section' = after.nav_section
        /\ UNCHANGED <<section_param, cal, rollup, pf, time_value, time_norm>>
        /\ UNCHANGED journalVars
        /\ UNCHANGED dashVars

\* a script run that no navigation widget caused: the first run of the
\* session, or the rerun after any other widget
Rerun == RunScript(nav_section, top_nav_section, sidebar_nav_section, "")

\* the user picks x in the select box ("top") or in the radio ("sidebar"):
\* the widget's key takes x, its on_change callback copies it to the other
\* two keys, and the script runs
ChangeNav(widget, x) ==
    /\ section # "absent"
    /\ x # (IF widget = "top" THEN top_nav_section ELSE sidebar_nav_section)
    /\ RunScript(x, x, x, "")

\* the user clicks "+ Add Trade": the run the click causes reaches
\* _request_nav, which sets _nav_request and reruns; the rerun pops it
ClickAddTrade ==
    /\ section # "absent"
    /\ LET run == nav_script(nav_section, top_nav_section, sidebar_nav_section,
                             section_param, "")
       IN  RunScript(run.nav_section, run.top_nav_section, run.sidebar_nav_section,
                     "New Trade")

NavSpec ==
    NavInit /\
    [][\/ Rerun
       \/ \E widget \in {"top", "sidebar"} :
              \E x \in {section_options[i] : i \in 1..Len(section_options)} :
                  ChangeNav(widget, x)
       \/ ClickAddTrade]_vars

\* ------------------------------------------------------------------------
\* normalize_time_input on its own: the texts a time field can hold, of at
\* most MaxTimeLen characters out of digits, the colon and the blank, and None
MaxTimeLen == 5

TimeInit ==
    /\ time_value \in {NoneStr} \cup
           UNION {[1..n -> {"0", "2", "9", ":", " "}] : n \in 0..MaxTimeLen}
    /\ time_norm = <<>>
    /\ trades = {}
    /\ uploads = 0
    /\ calls = {}
    /\ msg = "none"
    /\ nSaved = 0
    /\ nRuns = 0
    /\ PAYWALL_ENABLED = FALSE
    /\ ent = <<>>
    /\ pc = [s \in Sessions |-> "idle"]
    /\ df_view = <<>>
    /\ daily_df = <<>>
    /\ zylo = <<>>
    /\ streaks = <<>>
    /\ max_dd = <<>>
    /\ cal = <<>>
    /\ rollup = <<>>
    /\ pf = {}
    /\ nav_section = "absent"
    /\ top_nav_section = "absent"
    /\ sidebar_nav_section = "absent"
    /\ section_param = ""
    /\ section = "absent"

\* the save handler or the editor's save normalizes the text of a time field
NormalizeTime ==
    /\ time_norm = <<>>
    /\ time_norm' = <<normalize_time_input(time_value)>>
    /\ UNCHANGED <<time_value, cal, rollup, pf, nav_section, top_nav_section,
                   sidebar_nav_section, section_param, section>>
    /\ UNCHANGED journalVars
    /\ UNCHANGED dashVars

TimeSpec == TimeInit /\ [][NormalizeTime]_vars

\* ------------------------------------------------------------------------
\* Properties
\* ------------------------------------------------------------------------
Absent(str) == str \in {NoneStr, <<>>}

\* the arguments name an instrument and a direction and carry all four
\* required numbers
Present(a) ==
    /\ ~Absent(a.instrument) /\ ~Absent(a.direction)
    /\ a.entry # None /\ a.stop # None /\ a.exit_price # None /\ a.contracts # None

PointSymbols == {S_NQ, S_MNQ, S_ES, S_MES, S_GC, S_MGC}
PipSymbols == {S_EURUSD, S_GBPUSD, S_USDJPY, S_AUDUSD}

\* a complete trade: all required fields present and the instrument known
Complete(a) == Present(a) /\ a.instrument \in PointSymbols \cup PipSymbols

\* the unit of the stored points: 1 for a point-value instrument, the pip
\* size for a pip instrument
Unit(a) ==
    IF a.instrument \in PointSymbols THEN Num(1)
    ELSE IF a.instrument = S_USDJPY THEN Rat(1, 100) ELSE Rat(1, 10000)

\* the directional move from the entry to price: price - entry for Long,
\* entry - price for Short
Move(a, price) ==
    IF a.direction = S_Long THEN RSub(price, a.entry) ELSE RSub(a.entry, price)

Fees(a) ==
    RAdd(IF a.commission = None THEN Zero ELSE a.commission,
         IF a.slippage = None THEN Zero ELSE a.slippage)

\* C1: compute_metrics returns every computed field None when the instrument
\* or the direction is absent, the instrument is in neither the point-value
\* catalog nor the forex list, or entry, stop, exit price or size is absent.
C1_IncompleteIsAllNone ==
    \A c \in calls :
        ~Complete(c.a) => \A col \in COMPUTED_COLUMNS : c.m[col] = None

\* a call for a trade with every required field and an unknown instrument
C1_Witness ==
    \E c \in calls :
        /\ Present(c.a) /\ c.a.instrument = <<"X", "Y", "Z">>
        /\ c.m = NoMetrics

\* C2: for a complete trade, points = exit - entry for Long and
\* entry - exit for Short, divided by the pip size for a pip instrument.
C2_DirectionalPoints ==
    \A c \in calls :
        Complete(c.a) /\ c.a.direction \in {S_Long, S_Short}
            => c.m.points = RDiv(Move(c.a, c.a.exit_price), Unit(c.a))

\* a Short trade on a point-value instrument whose exit differs from its entry
C2_Witness ==
    \E c \in calls :
        /\ Complete(c.a) /\ c.a.direction = S_Short /\ c.a.instrument \in PointSymbols
        /\ c.a.entry # c.a.exit_price
        /\ c.m.points = RSub(c.a.entry, c.a.exit_price)

\* C3: for a trade with all required fields, r_multiple is None whenever
\* entry equals stop, for both instrument classes, and points, gross and net
\* P&L and the risk in dollars are still produced.
C3_ZeroRiskHasNoR ==
    \A c \in calls :
        Complete(c.a) /\ c.a.entry = c.a.stop
            => /\ c.m.r_multiple = None
               /\ c.m.points # None /\ c.m.pnl_gross # None
               /\ c.m.pnl_net # None /\ c.m.risk_dollars # None

\* a forex trade whose stop was set to its entry
C3_Witness ==
    \E c \in calls :
        /\ Complete(c.a) /\ c.a.instrument \in PipSymbols
        /\ c.a.entry = c.a.stop
        /\ c.m.r_multiple = None /\ c.m.pnl_net # None

\* C4: for every complete trade, whenever commission + slippage < |pnl_gross|
\* the sign of pnl_net equals the sign of points.
C4_NetSignIsPointsSign ==
    \A c \in calls :
        Complete(c.a) /\ RLt(Fees(c.a), RAbs(c.m.pnl_gross))
            => RSign(c.m.pnl_net) = RSign(c.m.points)

\* C5: for a pip instrument, r_multiple = pips / risk_pips when risk_pips is
\* nonzero, whatever the commission and the slippage.
C5_ForexRIsPipsOverRiskPips ==
    \A c \in calls :
        Complete(c.a) /\ c.a.instrument \in PipSymbols /\ c.a.entry # c.a.stop
            => c.m.r_multiple =
                   RDiv(c.m.points, RDiv(RAbs(RSub(c.a.entry, c.a.stop)), Unit(c.a)))

\* the spellings of a direction that normalize to Long or Short, after
\* strip and lower: those the claim names and bull and bear, which the
\* code accepts too
Recognized ==
    {<<"l", "o", "n", "g">>, <<"l">>, <<"b", "u", "y">>, <<"b", "u", "l", "l">>,
     <<"s", "h", "o", "r", "t">>, <<"s">>, <<"s", "e", "l", "l">>, <<"b", "e", "a", "r">>}

\* C6: a row whose direction is no recognized spelling keeps that direction
\* through normalize_direction and is an incomplete trade for the edit
\* handler: its metrics are all None.
C6_UnrecognizedDirectionIsIncomplete ==
    msg = "changes" =>
        \A r \in trades :
            r.direction = NoneStr \/ Lower(Strip(r.direction)) \notin Recognized
                => /\ normalize_direction(r.direction) = r.direction
                   /\ r.metrics = NoMetrics

\* C7 as stated: mfe_points and mae_points both follow the directional
\* formula of points (price - entry for Long, entry - price for Short, in
\* units of the instrument).
C7_Original ==
    \A c \in calls :
        Complete(c.a) /\ c.a.direction \in {S_Long, S_Short}
            => /\ c.a.max_favorable # None
                    => c.m.mfe_points = RDiv(Move(c.a, c.a.max_favorable), Unit(c.a))
               /\ c.a.max_adverse # None
                    => c.m.mae_points = RDiv(Move(c.a, c.a.max_adverse), Unit(c.a))

\* C7 amended: mfe_points follows the directional formula of points;
\* mae_points is its negation, the move against the trade: entry - price
\* for Long, price - entry for Short (in units of the instrument).
C7_MaeIsAdverseMove ==
    \A c \in calls :
        Complete(c.a) /\ c.a.direction \in {S_Long, S_Short}
            => /\ c.a.max_favorable # None
                    => c.m.mfe_points = RDiv(Move(c.a, c.a.max_favorable), Unit(c.a))
               /\ c.a.max_adverse # None
                    => c.m.mae_points = RNeg(RDiv(Move(c.a, c.a.max_adverse), Unit(c.a)))

\* a Short trade with a most adverse price above its entry
C7_Witness ==
    \E c \in calls :
        /\ Complete(c.a) /\ c.a.direction = S_Short
        /\ c.a.max_adverse # None /\ c.a.max_favorable # None
        /\ RLt(c.a.entry, c.a.max_adverse)
        /\ RLt(Zero, c.m.mae_points)

\* C8: with size zero on an otherwise complete trade, pnl_per_contract is
\* None and the other fields are computed from size 0 (gross P&L and risk in
\* dollars are 0), for point-value and pip instruments alike.
C8_ZeroSizeOnlyDropsPerContract ==
    \A c \in calls :
        Complete(c.a) /\ c.a.contracts = Zero
            => /\ c.m.pnl_per_contract = None
               /\ c.m.pnl_gross = Zero
               /\ c.m.risk_dollars = Zero

\* the arguments of the NQ example
IsNQExample(a) ==
    /\ a.instrument = S_NQ /\ a.direction = S_Long
    /\ a.entry = Num(18000) /\ a.stop = Num(17980) /\ a.exit_price = Num(18050)
    /\ a.contracts = Num(1) /\ a.commission = Num(4) /\ a.slippage = Num(1)

\* C9: NQ, Long, entry 18000, stop 17980, exit 18050, size 1, commission 4,
\* slippage 1 gives points 50, gross 1000, net 995, risk 400 dollars, R 2.5.
C9_NQExample ==
    \A c \in calls :
        IsNQExample(c.a)
            => /\ c.m.points = Num(50)
               /\ c.m.pnl_gross = Num(1000)
               /\ c.m.pnl_net = Num(995)
               /\ c.m.risk_dollars = Num(400)
               /\ c.m.r_multiple = Rat(5, 2)

C9_Witness == \E c \in calls : IsNQExample(c.a) /\ c.m.pnl_net = Num(995)

\* the arguments of the USDJPY example
IsUSDJPYExample(a) ==
    /\ a.instrument = S_USDJPY /\ a.direction = S_Long
    /\ a.entry = Num(150) /\ a.stop = Rat(299, 2) /\ a.exit_price = Rat(603, 4)
    /\ a.contracts = Num(1) /\ Fees(a) = Zero

\* the reference price of the claim: entry if positive, exit otherwise
RefPrice(a) == IF RLt(Zero, a.entry) THEN a.entry ELSE a.exit_price

\* C10: for USDJPY the pip size is 0.01 and the pip value per lot is
\* 1000 / reference price (entry if positive, exit otherwise), so points are
\* the move in hundredths and gross P&L is pips * 1000 / reference * lots;
\* the example gives 75 pips, gross 500, risk 1000/3 dollars and R 1.5.
C10_USDJPY ==
    \A c \in calls :
        /\ Complete(c.a) /\ c.a.instrument = S_USDJPY
           /\ RefPrice(c.a) # Zero /\ c.a.contracts # Zero
               => /\ c.m.points = RMul(RSub(c.a.exit_price, c.a.entry), Num(100))
                     \/ c.m.points = RMul(RSub(c.a.entry, c.a.exit_price), Num(100))
                  /\ c.m.pnl_gross =
                         RMul(RMul(c.m.points, RDiv(Num(1000), RefPrice(c.a))), c.a.contracts)
        /\ IsUSDJPYExample(c.a)
               => /\ c.m.points = Num(75)
                  /\ c.m.pnl_gross = Num(500)
                  /\ c.m.risk_dollars = Rat(1000, 3)
                  /\ c.m.r_multiple = Rat(3, 2)

C10_Witness == \E c \in calls : IsUSDJPYExample(c.a) /\ c.m.pnl_gross = Num(500)

\* the minute of the day of a time string HH:MM
MinuteOfDay(str) == 60 * ParseHM(str)[1] + ParseHM(str)[2]

\* C11: the duration of a complete trade is None when the date, the entry
\* time or the exit time is missing or unparseable; otherwise it is the exit
\* minute of the day minus the entry minute of the day, plus 1440 when the
\* exit is earlier than the entry, and so lies in [0, 1440).
C11_DurationWithinDay ==
    \A c \in calls :
        Complete(c.a) =>
            LET d == c.m.duration_minutes
                date == c.a.date_str
                entry == c.a.entry_time_str
                exit == c.a.exit_time_str
            IN  IF Absent(date) \/ Absent(entry) \/ Absent(exit)
                   \/ ~ValidDate(date) \/ ParseHM(entry) = <<>> \/ ParseHM(exit) = <<>>
                THEN d = None
                ELSE /\ d # None
                     /\ MinuteOfDay(exit) >= MinuteOfDay(entry)
                            => d = Num(MinuteOfDay(exit) - MinuteOfDay(entry))
                     /\ MinuteOfDay(exit) < MinuteOfDay(entry)
                            => d = Num(MinuteOfDay(exit) - MinuteOfDay(entry) + 1440)
                     /\ RLe(Zero, d) /\ RLt(d, Num(1440))

\* a trade entered at 15:44 and left at 10:00 lasts 1096 minutes
C11_Witness ==
    \E c \in calls :
        /\ Complete(c.a)
        /\ c.a.entry_time_str = <<"1", "5", ":", "4", "4">>
        /\ c.a.exit_time_str = <<"1", "0", ":", "0", "0">>
        /\ c.m.duration_minutes = Num(1096)

\* a complete trade whose edited entry time "23:60" does not parse, with a
\* date and an exit time that do
C11_Unparseable ==
    \E c \in calls :
        /\ Complete(c.a)
        /\ c.a.entry_time_str = <<"2", "3", ":", "6", "0">>
        /\ ValidDate(c.a.date_str) /\ ParseHM(c.a.exit_time_str) # <<>>
        /\ c.m.duration_minutes = None

\* the frame is not in ascending date order
Unsorted(df) == \E i \in 1..Len(df) - 1 : df[i].date > df[i + 1].date

\* C12: the daily equity curve is the prefix sum of the daily PnL taken in
\* ascending date order: equity[1] = pnl[1] on the first day and
\* equity[i] = equity[i-1] + pnl[i] on every later day.
C12_EquityIsPrefixSum ==
    daily_df # <<>> =>
        LET daily == daily_df[1]
        IN  /\ \A i \in 1..Len(daily) - 1 : daily[i].date < daily[i + 1].date
            /\ Len(daily) > 0 => daily[1].equity = daily[1].pnl
            /\ \A i \in 2..Len(daily) :
                   daily[i].equity = RAdd(daily[i - 1].equity, daily[i].pnl)

\* the daily table of a frame that is not in date order, with four days
\* whose equity is 10, 7, 9 and 11
C12_Witness ==
    /\ daily_df # <<>>
    /\ Unsorted(df_view)
    /\ Len(daily_df[1]) = 4
    /\ [i \in 1..4 |-> daily_df[1][i].pnl] = <<Num(10), Num(0 - 3), Num(2), Num(2)>>
    /\ [i \in 1..4 |-> daily_df[1][i].equity] = <<Num(10), Num(7), Num(9), Num(11)>>

\* the largest of the values eq[1], ..., eq[i]
RunningMax(eq, i) ==
    CHOOSE m \in {eq[j] : j \in 1..i} : \A j \in 1..i : RLe(eq[j], m)

\* the drawdown of the series eq at its point i
DrawdownAt(eq, i) == RSub(eq[i], RunningMax(eq, i))

\* the absolute value of the least drawdown of eq, 0 for the empty series
AbsMinDrawdown(eq) ==
    IF Len(eq) = 0 THEN Zero
    ELSE LET low == CHOOSE d \in {DrawdownAt(eq, i) : i \in 1..Len(eq)} :
                        \A i \in 1..Len(eq) : RLe(d, DrawdownAt(eq, i))
         IN  RAbs(low)

\* the equity of the trades taken one by one in date order
TradeEquity == cumsum(Pnl(sort_values(df_view)))

\* C13: at every point of an equity series the drawdown is the equity minus
\* the running maximum of the equity up to and including that point and is
\* <= 0, and the reported max drawdown is the absolute value of the minimum
\* of the drawdown series, 0 for an empty series. This holds for the daily
\* table, for _max_drawdown and for the max drawdown of compute_zylo_score.
C13_DrawdownNeverPositive ==
    /\ daily_df # <<>> =>
           LET eq == [i \in 1..Len(daily_df[1]) |-> daily_df[1][i].equity]
           IN  \A i \in 1..Len(eq) :
                   /\ daily_df[1][i].drawdown = DrawdownAt(eq, i)
                   /\ RLe(daily_df[1][i].drawdown, Zero)
    /\ max_dd # <<>> =>
           /\ \A i \in 1..Len(TradeEquity) : RLe(DrawdownAt(TradeEquity, i), Zero)
           /\ max_dd[1] = AbsMinDrawdown(TradeEquity)
    /\ zylo # <<>> => zylo[1].raw.max_drawdown = AbsMinDrawdown(TradeEquity)

\* trades of +10, -3, +2 and +2 on four days: the daily drawdown is 0, -3,
\* -1 and 0, and both reported max drawdowns are 3
C13_Witness ==
    /\ daily_df # <<>> /\ max_dd # <<>> /\ zylo # <<>>
    /\ Len(daily_df[1]) = 4
    /\ [i \in 1..4 |-> daily_df[1][i].drawdown] = <<Zero, Num(0 - 3), Num(0 - 1), Zero>>
    /\ max_dd[1] = Num(3)
    /\ zylo[1].raw.max_drawdown = Num(3)

\* x is a number of [0, 100]
InScoreRange(x) == x # None /\ RLe(Zero, x) /\ RLe(x, Num(100))

AllWins(df) == Len(df) > 0 /\ \A i \in 1..Len(df) : RLt(Zero, df[i].pnl)

AllLosses(df) == Len(df) > 0 /\ \A i \in 1..Len(df) : RLt(df[i].pnl, Zero)

\* C14: for every set of trades with its daily table, the one with no
\* trade, with only winning and with only losing trades included, the
\* overall score and each of the five component scores lie in [0, 100].
C14_ScoresWithinRange ==
    zylo # <<>> =>
        /\ InScoreRange(zylo[1].overall)
        /\ DOMAIN zylo[1].components = ScoreNames
        /\ \A k \in ScoreNames : InScoreRange(zylo[1].components[k])

\* four winning trades: Win % and Consistency reach 100
C14_Witness ==
    /\ zylo # <<>>
    /\ AllWins(df_view) /\ Len(df_view) = 4
    /\ zylo[1].components["Win %"] = Num(100)
    /\ zylo[1].components["Consistency"] = Num(100)

\* three losing trades: Win % is 0
C14_AllLosses ==
    /\ zylo # <<>>
    /\ AllLosses(df_view) /\ Len(df_view) = 3
    /\ zylo[1].components["Win %"] = Zero

HasWin(df) == \E i \in 1..Len(df) : RLt(Zero, df[i].pnl)

HasLoss(df) == \E i \in 1..Len(df) : RLt(df[i].pnl, Zero)

\* C15: trades with at least one win and no loss have an unbounded profit
\* factor, so their Profit Factor score is 100; among the trade sets without
\* a loss only the one without a win either has profit factor 0.
C15_WinsWithoutLossesScoreFull ==
    zylo # <<>> =>
        /\ HasWin(df_view) /\ ~HasLoss(df_view)
               => zylo[1].components["Profit Factor"] = Num(100)
        /\ ~HasLoss(df_view) /\ zylo[1].raw.profit_factor = Zero => ~HasWin(df_view)

\* the weighted sum of the component scores
WeightedSum(components) ==
    RAdd(RAdd(RAdd(RAdd(RMul(components["Win %"], Rat(24, 100)),
                        RMul(components["Profit Factor"], Rat(22, 100))),
                   RMul(components["Avg Win/Loss"], Rat(18, 100))),
              RMul(components["Consistency"], Rat(18, 100))),
         RMul(components["Max Drawdown"], Rat(18, 100)))

\* C16 as stated: for zero trades the win rate and the profit factor are 0,
\* all five component scores are 0, and the overall score is their weighted
\* sum.
C16_Original ==
    zylo # <<>> /\ Len(df_view) = 0 =>
        /\ zylo[1].raw.win_rate = Zero
        /\ zylo[1].raw.profit_factor = Zero
        /\ \A k \in ScoreNames : zylo[1].components[k] = Zero
        /\ zylo[1].overall = WeightedSum(zylo[1].components)

\* C16: for zero trades the win rate and the profit factor are 0; the Win %,
\* Profit Factor, Avg Win/Loss and Consistency scores are 0 and the Max
\* Drawdown score is 100, the total PnL and the max drawdown being both 0;
\* the overall score is their weighted sum, 18.
C16_ZeroTrades ==
    zylo # <<>> /\ Len(df_view) = 0 =>
        /\ zylo[1].raw.win_rate = Zero
        /\ zylo[1].raw.profit_factor = Zero
        /\ \A k \in ScoreNames \ {"Max Drawdown"} : zylo[1].components[k] = Zero
        /\ zylo[1].components["Max Drawdown"] = Num(100)
        /\ zylo[1].overall = WeightedSum(zylo[1].components)
        /\ zylo[1].overall = Num(18)

\* the score of the frame without rows
C16_Witness == zylo # <<>> /\ Len(df_view) = 0 /\ zylo[1].overall = Num(18)

\* the daily PnL of the frame in date order: the sums the streaks page
\* passes to compute_streaks
DailyPnl == Pnl(sort_values(groupby_date_sum(df_view)))

\* every value of s from position a to position b is strictly positive
AllPositive(s, a, b) == \A i \in a..b : RLt(Zero, s[i])

\* the length of the longest suffix of strictly positive values of s
LongestSuffix(s) ==
    CHOOSE k \in 0..Len(s) :
        /\ AllPositive(s, Len(s) - k + 1, Len(s))
        /\ \A j \in (k + 1)..Len(s) : ~AllPositive(s, Len(s) - j + 1, Len(s))

\* the length of the longest run of consecutive strictly positive values
LongestRun(s) ==
    CHOOSE k \in 0..Len(s) :
        /\ \E a \in 1..(Len(s) - k + 1) : AllPositive(s, a, a + k - 1)
        /\ \A j \in (k + 1)..Len(s) :
               \A a \in 1..(Len(s) - j + 1) : ~AllPositive(s, a, a + j - 1)

\* C17: the daily current streak is the length of the longest suffix of
\* days with strictly positive PnL of the date-sorted daily PnL, the daily
\* record streak the length of its longest run of consecutive strictly
\* positive days; a day with PnL 0 is no win. The days +10, +5, -3, +2, +2
\* give current 2 and record 2.
C17_DailyStreaks ==
    streaks # <<>> =>
        /\ streaks[1].daily.current = LongestSuffix(DailyPnl)
        /\ streaks[1].daily.record = LongestRun(DailyPnl)
        /\ DailyPnl = <<Num(10), Num(5), Num(0 - 3), Num(2), Num(2)>>
               => streaks[1].daily = [current |-> 2, record |-> 2]

\* the streaks of the days +10, +5, -3, +2, +2 loaded out of date order
C17_Witness ==
    /\ streaks # <<>>
    /\ Unsorted(df_view)
    /\ DailyPnl = <<Num(10), Num(5), Num(0 - 3), Num(2), Num(2)>>
    /\ streaks[1].daily = [current |-> 2, record |-> 2]

\* a last day whose trades sum to 0 ends the current streak
C17_ZeroDay ==
    /\ streaks # <<>>
    /\ Len(DailyPnl) = 3
    /\ DailyPnl[3] = Zero /\ RLt(Zero, DailyPnl[1]) /\ RLt(Zero, DailyPnl[2])
    /\ streaks[1].daily = [current |-> 0, record |-> 2]

\* the Monday-to-Sunday week of a day, counted from the week of day 0
WeekOf(date) == date \div 7

TradedWeeks == {WeekOf(df_view[i].date) : i \in 1..Len(df_view)}

FirstWeek == CHOOSE w \in TradedWeeks : \A v \in TradedWeeks : w <= v

LastWeek == CHOOSE w \in TradedWeeks : \A v \in TradedWeeks : v <= w

\* the PnL of every week from the first to the last traded week, 0 for a
\* week without a trade
WeeklyPnl ==
    [k \in 1..(LastWeek - FirstWeek + 1) |->
        Sum(Pnl(SelectSeq(df_view, LAMBDA r : WeekOf(r.date) = FirstWeek + k - 1)))]

C18_SundayEndsWeek ==
    /\ streaks # <<>>
    /\ {df_view[i].date : i \in 1..Len(df_view)} = {6, 7}
    /\ streaks[1].weekly = [current |-> 0, record |-> 1]

\* x limited to [0, 1]
Clamp(x) == IF RLt(x, Zero) THEN Zero ELSE IF RLt(Num(1), x) THEN Num(1) ELSE x

TotalPnl == Sum(Pnl(df_view))

\* C19: when the total PnL is exactly 0 the Max Drawdown score is 100 if
\* the max drawdown is 0 as well and 0 otherwise; when the total PnL is not
\* 0 it is (1 - clamp(max_drawdown / |total PnL| / 1.5, 0, 1)) * 100.
C19_MaxDrawdownScore ==
    zylo # <<>> =>
        LET max_drawdown == AbsMinDrawdown(TradeEquity)
            score == zylo[1].components["Max Drawdown"]
        IN  IF TotalPnl = Zero
            THEN score = IF max_drawdown = Zero THEN Num(100) ELSE Zero
            ELSE score = RMul(RSub(Num(1),
                                   Clamp(RDiv(RDiv(max_drawdown, RAbs(TotalPnl)), Rat(3, 2)))),
                              Num(100))

\* a trade of +2 followed by a trade of -2: the total PnL is 0, the max
\* drawdown 2, the score 0
C19_Witness ==
    /\ zylo # <<>>
    /\ Len(df_view) = 2
    /\ TotalPnl = Zero
    /\ zylo[1].raw.max_drawdown = Num(2)
    /\ zylo[1].components["Max Drawdown"] = Zero

\* a total PnL of 1 after a drawdown of 9: the ratio 9 is limited to 1.5
\* and the score is 0
C19_RatioClamped ==
    /\ zylo # <<>>
    /\ TotalPnl = Num(1)
    /\ zylo[1].raw.max_drawdown = Num(9)
    /\ zylo[1].components["Max Drawdown"] = Zero

\* a total PnL of 7 after a drawdown of 3: the score is 500/7
C19_RatioWithin ==
    /\ zylo # <<>>
    /\ TotalPnl = Num(7)
    /\ zylo[1].raw.max_drawdown = Num(3)
    /\ zylo[1].components["Max Drawdown"] = Rat(500, 7)

\* C20: after any sequence of saved trades and applied edits, the computed
\* fields stored with a trade are compute_metrics of the raw fields stored
\* with that trade, read the way the edit handler reads a row.
C20_StoredMetricsMatchRawFields ==
    \A r \in trades : r.metrics = compute_metrics(EditArgs(r))

\* the dates on which the frame has a trade
TradeDates == {df_view[i].date : i \in 1..Len(df_view)}

\* the sum of the pnl of the trades of the frame with an index in S
RECURSIVE PnlOfTrades(_)
PnlOfTrades(S) ==
    IF S = {} THEN Zero
    ELSE LET i == CHOOSE x \in S : TRUE
         IN  RAdd(df_view[i].pnl, PnlOfTrades(S \ {i}))

\* a table with one row for each date of the frame and for no other date,
\* the rows in ascending date order, each with the sum of the pnl of the
\* trades of its date, the pnl of the rows adding up to the pnl of the frame
IsDailyPnlTable(t) ==
    /\ {t[k].date : k \in 1..Len(t)} = TradeDates
    /\ Len(t) = Cardinality(TradeDates)
    /\ \A k \in 1..Len(t) - 1 : t[k].date < t[k + 1].date
    /\ \A k \in 1..Len(t) :
           t[k].pnl = PnlOfTrades({i \in 1..Len(df_view) : df_view[i].date = t[k].date})
    /\ Sum(Pnl(t)) = PnlOfTrades(1..Len(df_view))

\* C21: the daily table of the dashboard, and the daily table the streaks
\* page builds, have exactly one row per date on which the frame has a
\* trade and no other row, their rows are in ascending date order, and the
\* pnl of a row is the sum of the pnl of that date's trades, so that the
\* daily pnl adds up to the total pnl of the trades.
C21_DailyTable ==
    /\ daily_df # <<>> => IsDailyPnlTable(daily_df[1])
    /\ streaks # <<>> => IsDailyPnlTable(sort_values(groupby_date_sum(df_view)))

\* five trades out of date order on four dates, two of them on the same
\* day with the sum 0: the table has four rows
C21_Witness ==
    /\ daily_df # <<>>
    /\ streaks # <<>>
    /\ Len(df_view) = 5
    /\ Unsorted(df_view)
    /\ Len(daily_df[1]) = 4
    /\ \E k \in 1..4 : daily_df[1][k].date = 22 /\ daily_df[1][k].pnl = Zero

\* the trades of the frame on the dates of S
TradesOn(S) == {i \in 1..Len(df_view) : df_view[i].date \in S}

\* the dates of month m of 2024
DatesOfMonth(m) == {d \in 0..365 : month_start(m) <= d /\ d < month_start(m) + DaysInMonth(2024, m)}

\* C22: in the calendar of a month every week row has 7 cells of
\* consecutive days that start on a Sunday, the total and the number of
\* trades of a week are those of the trades on the days of the week that
\* lie in the month (a day of an adjacent month adds nothing), and the week
\* totals add up to the month total, the pnl of the trades of the month.
C22_CalendarWeeks ==
    cal # <<>> /\ cal[1].shown =>
        LET c == cal[1]
            InMonth == DatesOfMonth(c.month)
        IN  /\ \A w \in 1..Len(c.weeks) :
                   LET cells == c.weeks[w].cells
                       Days == {cells[k].day : k \in 1..7} \cap InMonth
                   IN  /\ Len(cells) = 7
                       /\ cells[1].day % 7 = 6
                       /\ \A k \in 1..6 : cells[k + 1].day = cells[k].day + 1
                       /\ c.weeks[w].week_total = PnlOfTrades(TradesOn(Days))
                       /\ c.weeks[w].week_trades = Cardinality(TradesOn(Days))
            /\ InMonth \subseteq UNION {{c.weeks[w].cells[k].day : k \in 1..7} :
                                          w \in 1..Len(c.weeks)}
            /\ Sum(ToSeq([w \in 1..Len(c.weeks) |-> c.weeks[w].week_total]))
                   = c.month_total
            /\ c.month_total = PnlOfTrades(TradesOn(InMonth))

\* the calendar of January 2024 for trades on the last days of January and
\* on the first days of February: the last week row, Sunday 2024-01-28 to
\* Saturday 2024-02-03, counts the three trades of January (4 - 6 + 1)
\* and not the two of February
C22_Witness ==
    /\ cal # <<>>
    /\ cal[1].shown
    /\ cal[1].month = 1
    /\ Len(cal[1].weeks) = 5
    /\ TradesOn({27, 30, 31, 33}) = 1..5
    /\ cal[1].weeks[5].cells[1].day = 27
    /\ ~cal[1].weeks[5].cells[5].in_month
    /\ cal[1].weeks[5].week_total = Num(0 - 1)
    /\ cal[1].weeks[5].week_trades = 3
    /\ cal[1].month_total = Num(0 - 1)

\* the ways to write n in a field of strptime: with one digit or with two
Written(n) == {Pad2(n)} \cup (IF n < 10 THEN {<<DigitChars[n + 1]>>} ELSE {})

\* the entry time is a string H:M that names hour h of the day
NamesHour(entry_time, h) ==
    \E hs \in Written(h) :
        /\ Len(entry_time) > Len(hs) + 1
        /\ SubSeq(entry_time, 1, Len(hs) + 1) = hs \o <<":">>
        /\ \E m \in 0..59 : SubSeq(entry_time, Len(hs) + 2, Len(entry_time)) \in Written(m)

\* the rows of a rollup account for each trade i of the frame, of key
\* keys[i], in exactly one row, with the number and the pnl of the trades
\* of that key
CountsAll(perf, keys) ==
    /\ \A i \in 1..Len(df_view) :
           Cardinality({row \in perf : row.key = keys[i]}) = 1
    /\ \A row \in perf :
           LET Of == {i \in 1..Len(df_view) : keys[i] = row.key}
           IN  row.count = Cardinality(Of) /\ row.sum = PnlOfTrades(Of)

\* the sum of the counts of the rows of a rollup
RECURSIVE TotalCount(_)
TotalCount(perf) ==
    IF perf = {} THEN 0
    ELSE LET row == CHOOSE x \in perf : TRUE
         IN  row.count + TotalCount(perf \ {row})

\* C23: a trade whose entry time is missing or does not parse as H:M is in
\* no row of the hour rollup, and is counted in the rollups by weekday, by
\* instrument and by session and in the daily table; the counts of the hour
\* rows add up to the number of trades whose entry time parses.
C23_HourRollup ==
    rollup # <<>> =>
        LET r == rollup[1]
            WeekdayOf == ToSeq([i \in 1..Len(df_view) |-> day_order[(df_view[i].date % 7) + 1]])
            InstrumentOf == ToSeq([i \in 1..Len(df_view) |-> df_view[i].instrument])
            SessionOf == ToSeq([i \in 1..Len(df_view) |-> df_view[i].session])
            Parses == {i \in 1..Len(df_view) :
                          \E h \in 0..23 : NamesHour(df_view[i].entry_time, h)}
        IN  /\ \A row \in r.hour_perf :
                   LET h == CHOOSE h \in 0..23 : row.key = Num(h)
                       Of == {i \in 1..Len(df_view) : NamesHour(df_view[i].entry_time, h)}
                   IN  /\ row.count = Cardinality(Of)
                       /\ row.count > 0
                       /\ row.sum = PnlOfTrades(Of)
            /\ Cardinality(r.hour_perf) = Cardinality({row.key : row \in r.hour_perf})
            /\ TotalCount(r.hour_perf) = Cardinality(Parses)
            /\ CountsAll(r.day_perf, WeekdayOf)
            /\ CountsAll(r.instrument_df, InstrumentOf)
            /\ CountsAll(r.session_df, SessionOf)
            /\ IsDailyPnlTable(daily_df[1])

\* five trades, two of hour 9 and three whose entry time does not parse
\* (None, "25:00", "09:30:00"): the hour rollup has the one row of hour 9
\* with 2 trades, and the weekday rollup counts all five
C23_Witness ==
    /\ rollup # <<>>
    /\ Len(df_view) = 5
    /\ \E i \in 1..5 : df_view[i].entry_time = NoneStr
    /\ \E i \in 1..5 : df_view[i].entry_time = <<"2", "5", ":", "0", "0">>
    /\ \E i \in 1..5 : df_view[i].entry_time = <<"0", "9", ":", "3", "0", ":", "0", "0">>
    /\ rollup[1].hour_perf = {[key |-> Num(9), sum |-> Num(16), count |-> 2]}
    /\ [key |-> "Monday", sum |-> Num(6), count |-> 2] \in rollup[1].day_perf
    /\ [key |-> "Tuesday", sum |-> Num(3), count |-> 2] \in rollup[1].day_perf
    /\ [key |-> "Wednesday", sum |-> Num(5), count |-> 1] \in rollup[1].day_perf

\* C24: every profit factor computed outside the score is sum(wins) /
\* |sum(losses)| when the losses do not sum to 0, 'infinite' for wins
\* without losses and 'no data' (None) without wins and without losses.
C24_ProfitFactorCases ==
    \A c \in pf :
        LET Wins == PnlOfTrades({i \in 1..Len(df_view) : RLt(Zero, df_view[i].pnl)})
            Losses == PnlOfTrades({i \in 1..Len(df_view) : RLt(df_view[i].pnl, Zero)})
        IN  c.value = IF Losses # Zero THEN RDiv(Wins, RAbs(Losses))
                      ELSE IF Wins # Zero THEN Inf
                      ELSE None

\* for wins without losses render_section and summarize_performance give
\* different answers, n/a and infinite
C24_CardsDisagree ==
    /\ Cardinality(pf) = 2
    /\ HasWin(df_view)
    /\ ~HasLoss(df_view)
    /\ [by |-> "render_section", value |-> None] \in pf
    /\ [by |-> "summarize_performance", value |-> Inf] \in pf

\* _profit_factor alone has the three cases
C24_SummaryProfitFactor ==
    \A c \in pf : c.by = "summarize_performance" =>
        LET Wins == PnlOfTrades({i \in 1..Len(df_view) : RLt(Zero, df_view[i].pnl)})
            Losses == PnlOfTrades({i \in 1..Len(df_view) : RLt(df_view[i].pnl, Zero)})
        IN  c.value = IF Losses # Zero THEN RDiv(Wins, RAbs(Losses))
                      ELSE IF Wins # Zero THEN Inf
                      ELSE None

\* the frame with the trades at positions i and i + 1 exchanged
Exchanged(df, i) ==
    [k \in 1..Len(df) |-> IF k = i THEN df[i + 1] ELSE IF k = i + 1 THEN df[i] ELSE df[k]]

\* C25: for a frame in ascending date order, exchanging two neighbouring
\* trades of the same date (and so any reordering of the trades of one
\* date) leaves the result of compute_zylo_score as it is: the overall
\* score, every component and the max drawdown.
C25_SameDateOrderIrrelevant ==
    zylo # <<>> /\ ~Unsorted(df_view) =>
        \A i \in 1..Len(df_view) - 1 :
            df_view[i].date = df_view[i + 1].date =>
                LET other == Exchanged(df_view, i)
                IN  compute_zylo_score(other, daily_table(other)) = zylo[1]

\* the trades +2 and -2 of one day: taken in this order the max drawdown is
\* 2 and the Max Drawdown score 0, in the other order 0 and 100
C25_OrderChangesDrawdown ==
    /\ zylo # <<>>
    /\ df_view = <<[date |-> 22, pnl |-> Num(2)], [date |-> 22, pnl |-> Num(0 - 2)]>>
    /\ zylo[1].raw.max_drawdown = Num(2)
    /\ zylo[1].components["Max Drawdown"] = Zero
    /\ LET other == Exchanged(df_view, 1)
           z == compute_zylo_score(other, daily_table(other))
       IN  /\ z.raw.max_drawdown = Zero
           /\ z.components["Max Drawdown"] = Num(100)
           /\ z.overall # zylo[1].overall

\* C26: with the paywall enabled and the user on a free plan with trade
\* limit L, the user never has more than L stored trades, over all account
\* types, whatever the two sessions submit and however they interleave.
C26_TradeLimitHolds ==
    PAYWALL_ENABLED /\ ent # <<>> /\ ent[1].plan = "free" =>
        Cardinality(trades) <= ent[1].trade_limit[1]

\* both sessions pass the check of the same count before either inserts:
\* limit 1, no trade before, two trades after
C26_Race ==
    /\ ent[1].trade_limit = <<1>>
    /\ Cardinality(trades) = 2
    /\ \E r \in trades : r.by = 1
    /\ \E r \in trades : r.by = 2

\* a session that submits while no other session is between its check and
\* its insert is held to the limit: the trades saved by one session alone
\* never exceed it
C26_OneSessionHeld ==
    \A s \in Sessions :
        (\A r \in trades : r.by \in {0, s}) =>
            Cardinality(trades) <= ent[1].trade_limit[1]

\* the messages of a refused submission, and the step of a submission
Refusals == {"limit", "prices", "entry_time", "exit_time"}

Submission == nRuns' = nRuns + 1 /\ msg' # "changes"

\* the user is on a free plan under the paywall and has as many trades as
\* the plan allows, or more
LimitReached ==
    /\ PAYWALL_ENABLED
    /\ ent # <<>>
    /\ ent[1].plan = "free"
    /\ Cardinality(trades) >= ent[1].trade_limit[1]

\* the step adds exactly one trade, with an id no trade had before
AddsOneFreshTrade ==
    \E r \in trades' :
        /\ trades' = trades \cup {r}
        /\ r \notin trades
        /\ \A t \in trades : t.id # r.id
        /\ r.id > nSaved

C27_FailedKeepsImages ==
    /\ msg = "failed"
    /\ trades = {}
    /\ uploads > 0

\* a submission refused for its prices and one refused for its time
C27_RefusedForPrices == msg = "prices" /\ nRuns = 1 /\ trades = {} /\ uploads = 0

C27_RefusedForTime == msg = "entry_time" /\ nRuns = 1 /\ trades = {} /\ uploads = 0

\* 0 <= current <= record <= number of buckets, and record is 0 exactly when
\* no bucket has a strictly positive pnl
StreakWithinBuckets(s, buckets) ==
    /\ 0 <= s.current
    /\ s.current <= s.record
    /\ s.record <= Len(buckets)
    /\ s.record = 0 <=> \A k \in 1..Len(buckets) : ~RLt(Zero, buckets[k])

\* C28: the daily streaks satisfy 0 <= current <= record <= number of
\* days of the daily table, the weekly streaks 0 <= current <= record <=
\* number of weeks from the first to the last traded week, and a record is
\* 0 exactly when no day, or no week, has a strictly positive pnl.
C28_StreakBounds ==
    streaks # <<>> =>
        /\ StreakWithinBuckets(streaks[1].daily, DailyPnl)
        /\ StreakWithinBuckets(streaks[1].weekly, IF Len(df_view) = 0 THEN <<>> ELSE WeeklyPnl)

\* days +10, +5, -3, +2 over four weeks, one of them without a trade:
\* daily current 1 and record 2 of 4 days, weekly current 1 and record 1
\* of 4 weeks
C28_Witness ==
    /\ streaks # <<>>
    /\ Len(DailyPnl) = 4
    /\ Len(WeeklyPnl) = 4
    /\ streaks[1].daily = [current |-> 1, record |-> 2]
    /\ streaks[1].weekly = [current |-> 1, record |-> 1]

\* a frame whose days and weeks all lose: every streak is 0
C28_NoWin ==
    /\ streaks # <<>>
    /\ Len(df_view) = 3
    /\ AllLosses(df_view)
    /\ streaks[1].daily = [current |-> 0, record |-> 0]
    /\ streaks[1].weekly = [current |-> 0, record |-> 0]

\* C29: in every script run of a logged-in session, where the section to
\* render is read, nav_section, top_nav_section and sidebar_nav_section hold
\* the same section, also when the URL carries a section query parameter.
C29_NavInSync ==
    section # "absent" =>
        /\ nav_section = top_nav_section
        /\ nav_section = sidebar_nav_section

\* C29, second half: after the user changes either navigation widget, the
\* section the next run renders is the one selected
C29_SelectedIsRendered ==
    [][\A widget \in {"top", "sidebar"} :
           \A x \in {section_options[i] : i \in 1..Len(section_options)} :
               ChangeNav(widget, x) => section' = x]_vars

\* the session was opened on ?section=Reports and the user picked Journal in
\* the select box: the widgets show Journal, the page rendered is Reports
C29_ParamWins ==
    /\ section_param = "Reports"
    /\ top_nav_section = "Journal"
    /\ sidebar_nav_section = "Journal"
    /\ nav_section = "Reports"
    /\ section = "Reports"

\* without a section in the URL the three keys agree where the section is read
C29_InSyncWithoutParam ==
    (section # "absent" /\ section_param \notin {section_options[i] : i \in 1..Len(section_options)}) =>
        /\ nav_section = top_nav_section
        /\ nav_section = sidebar_nav_section
        /\ section = nav_section

\* without a section in the URL the section selected is the one rendered
C29_SelectedWithoutParam ==
    [][\A widget \in {"top", "sidebar"} :
           \A x \in {section_options[i] : i \in 1..Len(section_options)} :
               (ChangeNav(widget, x) /\ section_param = "") => section' = x]_vars

\* s is two digits, a colon and two digits
ShapeHHMM(s) ==
    /\ Len(s) = 5
    /\ s[3] = ":"
    /\ \A i \in {1, 2, 4, 5} : IsDigit(s[i])

\* s is HH:MM with the hour in 00..23 and the minute in 00..59
ValidHHMM(s) ==
    /\ ShapeHHMM(s)
    /\ 10 * DigitVal(s[1]) + DigitVal(s[2]) <= 23
    /\ 10 * DigitVal(s[4]) + DigitVal(s[5]) <= 59

\* C30: normalize_time_input returns None or a string HH:MM that denotes a
\* valid time of day, which parse_time_hour and compute_duration_minutes
\* parse, and normalizing a result that is not None gives it back.
C30_ValidAndIdempotent ==
    (time_norm # <<>> /\ time_norm[1] # NoneStr) =>
        /\ ValidHHMM(time_norm[1])
        /\ parse_time_hour(time_norm[1]) # None
        /\ compute_duration_minutes(<<"2", "0", "2", "4", "-", "0", "1", "-", "0", "2">>,
                                    time_norm[1], time_norm[1]) # None
        /\ normalize_time_input(time_norm[1]) = time_norm[1]

\* "2900" becomes "29:00", which no later strptime accepts and which
\* normalize_time_input itself turns into None
C30_DigitsUnchecked ==
    /\ time_value = <<"2", "9", "0", "0">>
    /\ time_norm = <<<<"2", "9", ":", "0", "0">>>>
    /\ parse_time_hour(time_norm[1]) = None
    /\ normalize_time_input(time_norm[1]) = NoneStr

\* "290" becomes "02:90": the minute is out of range
C30_MinuteUnchecked ==
    /\ time_value = <<"2", "9", "0">>
    /\ time_norm = <<<<"0", "2", ":", "9", "0">>>>
    /\ parse_time_hour(time_norm[1]) = None

\* every result that is not None has the shape of HH:MM
C30_ShapeHolds ==
    (time_norm # <<>> /\ time_norm[1] # NoneStr) => ShapeHHMM(time_norm[1])

\* a text with a colon gives None or a valid time that parses and is kept
\* by a second normalization
C30_ColonTextsValid ==
    (time_norm # <<>> /\ time_norm[1] # NoneStr /\ Positions(time_value, ":") # {}) =>
        /\ ValidHHMM(time_norm[1])
        /\ parse_time_hour(time_norm[1]) # None
        /\ normalize_time_input(time_norm[1]) = time_norm[1]

\* " 9:2 " becomes "09:02"
C30_PaddedTime ==
    /\ time_value = <<" ", "9", ":", "2", " ">>
    /\ time_norm = <<<<"0", "9", ":", "0", "2">>>>

====
